---- MODULE Spec2Model ----
(***************************************************************************)
(* The Battleship variant rule engine (class BattleshipEngine): one 3-cell *)
(* boat per player on a 10x10 grid, a turn is a fire or a move, a game is  *)
(* won by three hits or lost by moving into the opponent's boat.           *)
(***************************************************************************)
EXTENDS Integers, Sequences, FiniteSets, TLC

VARIABLES state, lastCall, lastResult

vars == <<state, lastCall, lastResult>>

----------------------------------------------------------------------------
(* Program constants *)

GRID_SIZE == 10
BOAT_LENGTH == 3
MIN_SPAWN_DISTANCE == 4
MAX_ATTEMPTS == 100

(* Bounds of the exploration *)

\* fire and move are called while fewer than MaxActions actions have switched
\* the turn since the last reset.
MaxActions == 5
\* move is called while fewer than MaxMoveActions actions have switched the turn.
MaxMoveActions == 2
\* move is called with spaces in 0..MaxSpaces.
MaxSpaces == 3
\* The queries of a player are examined while fewer than MaxViewActions actions
\* have switched the turn.
MaxViewActions == 2
\* A caller that holds a returned object calls fire and move while fewer than
\* MaxHeldActions actions have switched the turn.
MaxHeldActions == 1
\* The route takes 'turn' requests while fewer than MaxRouteActions actions have
\* switched the turn, and the agent of a request calls at most MaxToolCalls
\* tools (generate is given maxSteps: 3).
MaxRouteActions == 2
MaxToolCalls == 3
\* Callers that sweep the grid make fewer than MaxSweepActions actions that
\* switch the turn, and at most MaxDodges moves out of the line of fire.
MaxSweepActions == 202
MaxDodges == 1
\* The route takes MaxRequests 'turn' requests, which may overlap, the agent
\* of each calls at most MaxOverlapCalls tools, and MaxResets 'reset' requests.
MaxRequests == 2
MaxOverlapCalls == 2
MaxResets == 1
\* The chess route takes MaxChessRequests 'move' requests at a time and
\* MaxChessResets 'reset' requests, starts MaxTasks advisor tasks, and its
\* agents make MaxAgentMoves moves in a request and MaxPlies moves in a game.
MaxChessRequests == 2
MaxChessResets == 1
MaxTasks == 3
MaxAgentMoves == 1
MaxPlies == 2

\* The shots of a game that are aimed at any position of the grid.
MaxKeyActions == 1

----------------------------------------------------------------------------
(* Types *)

Player == {"player1", "player2"}
Orientation == {"horizontal", "vertical"}
Direction == {"up", "down", "left", "right"}

\* winner: Player | null
null == "null"
\* winReason: string | null; a string is a sequence of text pieces, and null
\* is the empty sequence (no template of the engine yields an empty string).
nullReason == << >>

Position(r, c) == [row |-> r, col |-> c]

----------------------------------------------------------------------------
(* Strings: a template literal is the sequence of its pieces *)

DigitChar == <<"0", "1", "2", "3", "4", "5", "6", "7", "8", "9">>

RECURSIVE Digits(_)
Digits(n) ==
    IF n < 10 THEN <<DigitChar[n + 1]>>
    ELSE Digits(n \div 10) \o <<DigitChar[(n % 10) + 1]>>

\* `${n}` for an integer n
NumberToString(n) == IF n < 0 THEN <<"-">> \o Digits(0 - n) ELSE Digits(n)

\* positionKey with the column written first
positionKey_transposed(pos) == NumberToString(pos.col) \o <<",">> \o NumberToString(pos.row)

positionKey(pos) == NumberToString(pos.row) \o <<",">> \o NumberToString(pos.col)

cellIndexKey(index) == NumberToString(index)

\* Map<string, 'hit' | 'miss'>: the entries in insertion order
MapHas(m, key) == \E i \in 1..Len(m) : m[i].key = key

MapSet(m, key, value) ==
    IF MapHas(m, key)
    THEN [i \in 1..Len(m) |-> IF m[i].key = key
                              THEN [key |-> key, value |-> value] ELSE m[i]]
    ELSE Append(m, [key |-> key, value |-> value])

----------------------------------------------------------------------------
(* Boat geometry *)

getBoatCells(boat) ==
    [i \in 1..BOAT_LENGTH |->
        IF boat.orientation = "horizontal"
        THEN Position(boat.position.row, boat.position.col + (i - 1))
        ELSE Position(boat.position.row + (i - 1), boat.position.col)]

Abs(x) == IF x < 0 THEN 0 - x ELSE x

\* a check that measures from anchor to anchor
boatsTooClose_anchors(boat1, boat2) ==
    Abs(boat1.position.row - boat2.position.row)
        + Abs(boat1.position.col - boat2.position.col) < MIN_SPAWN_DISTANCE

boatsTooClose(boat1, boat2) ==
    LET cells1 == getBoatCells(boat1)
        cells2 == getBoatCells(boat2)
    IN \E i \in 1..Len(cells1), j \in 1..Len(cells2) :
          Abs(cells1[i].row - cells2[j].row) + Abs(cells1[i].col - cells2[j].col)
              < MIN_SPAWN_DISTANCE

\* The values Math.floor(Math.random() * (max + 1)) is sampled at: the lowest
\* of its range, or the lowest and the highest.
Lowest == [max \in 0..GRID_SIZE |-> {0}]
Edges == [max \in 0..GRID_SIZE |-> {0, max}]

\* The boats generateRandomBoat can return, its anchor sampled at RandomInt.
generateRandomBoat(RandomInt) ==
    UNION {
        LET maxRow == IF orientation = "horizontal"
                      THEN GRID_SIZE - 1 ELSE GRID_SIZE - BOAT_LENGTH
            maxCol == IF orientation = "horizontal"
                      THEN GRID_SIZE - BOAT_LENGTH ELSE GRID_SIZE - 1
        IN { [position |-> Position(r, c), orientation |-> orientation, hits |-> {}] :
                r \in RandomInt[maxRow], c \in RandomInt[maxCol] }
        : orientation \in Orientation }

\* a game that starts with its turn counter at 0
newGame_turnZero(player1Boat, player2Boat) ==
    [gridSize |-> GRID_SIZE,
     players |-> [player1 |-> [boat |-> player1Boat, shotsHistory |-> << >>],
                  player2 |-> [boat |-> player2Boat, shotsHistory |-> << >>]],
     currentTurn |-> "player1",
     isGameOver |-> FALSE,
     winner |-> null,
     winReason |-> nullReason,
     turnNumber |-> 0]

newGame(player1Boat, player2Boat) ==
    [gridSize |-> GRID_SIZE,
     players |-> [player1 |-> [boat |-> player1Boat, shotsHistory |-> << >>],
                  player2 |-> [boat |-> player2Boat, shotsHistory |-> << >>]],
     currentTurn |-> "player1",
     isGameOver |-> FALSE,
     winner |-> null,
     winReason |-> nullReason,
     turnNumber |-> 1]

\* The boats the retry loop can leave as player2's: one that is not too close
\* to player1's, or the one generated by the last of MAX_ATTEMPTS
\* regenerations, every boat generated before it having been too close.
spawnPlayer2(player1Boat) ==
    { b \in generateRandomBoat(Edges) :
        \/ ~boatsTooClose(player1Boat, b)
        \/ /\ MAX_ATTEMPTS > 0
           /\ \E earlier \in generateRandomBoat(Edges) :
                 boatsTooClose(player1Boat, earlier) }

\* The states initializeGame can return.
initializeGame ==
    UNION { { newGame(player1Boat, player2Boat) :
                player2Boat \in spawnPlayer2(player1Boat) } :
            player1Boat \in generateRandomBoat(Lowest) }

----------------------------------------------------------------------------
(* Turn switching *)

Opponent(player) == IF player = "player1" THEN "player2" ELSE "player1"

\* a turn counter that counts every switch
switchTurn_countsEvery(st) ==
    LET next == IF st.currentTurn = "player1" THEN "player2" ELSE "player1"
    IN [st EXCEPT !.currentTurn = next,
                  !.turnNumber = @ + 1]

\* a turn counter that counts the actions of player1
switchTurn_countsPlayer1(st) ==
    LET next == IF st.currentTurn = "player1" THEN "player2" ELSE "player1"
    IN [st EXCEPT !.currentTurn = next,
                  !.turnNumber = IF next = "player2" THEN @ + 1 ELSE @]

switchTurn(st) ==
    LET next == IF st.currentTurn = "player1" THEN "player2" ELSE "player1"
    IN [st EXCEPT !.currentTurn = next,
                  !.turnNumber = IF next = "player1" THEN @ + 1 ELSE @]

----------------------------------------------------------------------------
(* fire *)

Text(s) == <<s>>

InGrid(pos) ==
    ~(pos.row < 0 \/ pos.row >= GRID_SIZE \/ pos.col < 0 \/ pos.col >= GRID_SIZE)

\* an index that counts the cells from 1
hitCellIndex_oneBased(opponentCells, target) ==
    LET matches == {i \in 1..Len(opponentCells) :
                       /\ opponentCells[i].row = target.row
                       /\ opponentCells[i].col = target.col}
    IN IF matches = {} THEN 0 - 1
       ELSE CHOOSE i \in matches : \A j \in matches : i <= j

\* The index (0-based) of the first cell equal to target, -1 when there is none.
hitCellIndex(opponentCells, target) ==
    LET matches == {i \in 1..Len(opponentCells) :
                       /\ opponentCells[i].row = target.row
                       /\ opponentCells[i].col = target.col}
    IN IF matches = {} THEN 0 - 1
       ELSE (CHOOSE i \in matches : \A j \in matches : i <= j) - 1

\* fire without the check of the turn
fireRejection_anyTurn(st, player, target) ==
    IF st.isGameOver THEN "Game is already over"
    ELSE IF ~InGrid(target) THEN "Invalid target position"
    ELSE IF MapHas(st.players[player].shotsHistory, positionKey(target))
         THEN "Already fired at this position"
    ELSE ""

\* fire without the check of the shot history
fireRejection_repeat(st, player, target) ==
    IF st.isGameOver THEN "Game is already over"
    ELSE IF st.currentTurn # player THEN "Not your turn"
    ELSE IF ~InGrid(target) THEN "Invalid target position"
    ELSE ""

\* fire that looks at the target before the turn
fireRejection_gridFirst(st, player, target) ==
    IF st.isGameOver THEN "Game is already over"
    ELSE IF ~InGrid(target) THEN "Invalid target position"
    ELSE IF st.currentTurn # player THEN "Not your turn"
    ELSE IF MapHas(st.players[player].shotsHistory, positionKey(target))
         THEN "Already fired at this position"
    ELSE ""

\* fire without the check of the grid
fireRejection_noGrid(st, player, target) ==
    IF st.isGameOver THEN "Game is already over"
    ELSE IF st.currentTurn # player THEN "Not your turn"
    ELSE IF MapHas(st.players[player].shotsHistory, positionKey(target))
         THEN "Already fired at this position"
    ELSE ""

\* The precondition of fire that fails first, "" when none does.
fireRejection(st, player, target) ==
    IF st.isGameOver THEN "Game is already over"
    ELSE IF st.currentTurn # player THEN "Not your turn"
    ELSE IF ~InGrid(target) THEN "Invalid target position"
    ELSE IF MapHas(st.players[player].shotsHistory, positionKey(target))
         THEN "Already fired at this position"
    ELSE ""

\* a shot written into the histories of both players
recordShot_shared(st, player, posKey, hit) ==
    [st EXCEPT !.players["player1"].shotsHistory =
                    MapSet(@, posKey, IF hit THEN "hit" ELSE "miss"),
               !.players["player2"].shotsHistory =
                    MapSet(@, posKey, IF hit THEN "hit" ELSE "miss")]

\* Record the shot
recordShot(st, player, posKey, hit) ==
    [st EXCEPT !.players[player].shotsHistory =
                    MapSet(@, posKey, IF hit THEN "hit" ELSE "miss")]

\* a hit set that counts the hits, one new key for each
addHit_counts(st, opponent, index) ==
    [st EXCEPT !.players[opponent].boat.hits = @ \cup {cellIndexKey(Cardinality(@))}]

addHit(st, opponent, index) ==
    [st EXCEPT !.players[opponent].boat.hits = @ \cup {cellIndexKey(index)}]

\* a boat that sinks one hit late
isSunk_late(boat) == Cardinality(boat.hits) > BOAT_LENGTH

isSunk(boat) == Cardinality(boat.hits) >= BOAT_LENGTH

\* a sink credited to the boat's owner
endBySink_owner(st, player, opponent) ==
    [st EXCEPT !.isGameOver = TRUE,
               !.winner = opponent,
               !.winReason = <<player, " sunk ", opponent, "'s boat!">>]

\* a sink that passes the turn on
endBySink_switches(st, player, opponent) ==
    switchTurn([st EXCEPT !.isGameOver = TRUE,
                          !.winner = player,
                          !.winReason = <<player, " sunk ", opponent, "'s boat!">>])

endBySink(st, player, opponent) ==
    [st EXCEPT !.isGameOver = TRUE,
               !.winner = player,
               !.winReason = <<player, " sunk ", opponent, "'s boat!">>]

\* fire past its preconditions (lines 208-255)
fireAccepted(st, player, target) ==
    LET posKey == positionKey(target)
        opponent == IF player = "player1" THEN "player2" ELSE "player1"
        opponentCells == getBoatCells(st.players[opponent].boat)
        index == hitCellIndex(opponentCells, target)
        hit == index # 0 - 1
        shot == recordShot(st, player, posKey, hit)
    IN IF hit
       THEN LET struck == addHit(shot, opponent, index) IN
            IF isSunk(struck.players[opponent].boat)
            THEN [state |-> endBySink(struck, player, opponent),
                  result |-> [success |-> TRUE, hit |-> TRUE,
                              message |-> Text("HIT! You sunk the enemy boat!"),
                              sunk |-> TRUE]]
            ELSE [state |-> switchTurn(struck),
                  result |-> [success |-> TRUE, hit |-> TRUE,
                              message |->
                                <<"HIT at (">> \o NumberToString(target.row)
                                \o <<", ">> \o NumberToString(target.col)
                                \o <<")! Enemy boat has ">>
                                \o NumberToString(
                                     Cardinality(struck.players[opponent].boat.hits))
                                \o <<"/">> \o NumberToString(BOAT_LENGTH)
                                \o <<" hits.">>]]
       ELSE [state |-> switchTurn(shot),
             result |-> [success |-> TRUE, hit |-> FALSE,
                         message |->
                           <<"MISS at (">> \o NumberToString(target.row)
                           \o <<", ">> \o NumberToString(target.col) \o <<").">>]]

\* fire(player, target): the state after the call and the value returned.
fire(st, player, target) ==
    LET rejection == fireRejection(st, player, target) IN
    IF rejection # ""
    THEN [state |-> st,
          result |-> [success |-> FALSE, hit |-> FALSE, message |-> Text(rejection)]]
    ELSE fireAccepted(st, player, target)

----------------------------------------------------------------------------
(* move *)

newPositionOf(position, direction, spaces) ==
    CASE direction = "up"    -> Position(position.row - spaces, position.col)
      [] direction = "down"  -> Position(position.row + spaces, position.col)
      [] direction = "left"  -> Position(position.row, position.col - spaces)
      [] direction = "right" -> Position(position.row, position.col + spaces)

\* a bounds check that lets a cell onto row or column GRID_SIZE
outOfBounds_offByOne(newCells) ==
    \E i \in 1..Len(newCells) :
        \/ newCells[i].row < 0 \/ newCells[i].row > GRID_SIZE
        \/ newCells[i].col < 0 \/ newCells[i].col > GRID_SIZE

\* a bounds check that looks at the anchor only
outOfBounds_anchorOnly(newCells) ==
    \/ newCells[1].row < 0 \/ newCells[1].row >= GRID_SIZE
    \/ newCells[1].col < 0 \/ newCells[1].col >= GRID_SIZE

outOfBounds(newCells) ==
    \E i \in 1..Len(newCells) :
        \/ newCells[i].row < 0 \/ newCells[i].row >= GRID_SIZE
        \/ newCells[i].col < 0 \/ newCells[i].col >= GRID_SIZE

\* a collision check that looks at the anchors only
collides_anchors(newCells, opponentCells) ==
    /\ newCells[1].row = opponentCells[1].row
    /\ newCells[1].col = opponentCells[1].col

collides(newCells, opponentCells) ==
    \E i \in 1..Len(newCells), j \in 1..Len(opponentCells) :
        /\ newCells[i].row = opponentCells[j].row
        /\ newCells[i].col = opponentCells[j].col

\* move without the check of the game being over
moveRejection_afterOver(st, player, direction, spaces) ==
    IF st.currentTurn # player THEN "Not your turn"
    ELSE IF spaces < 1 \/ spaces > 2 THEN "Can only move 1 or 2 spaces"
    ELSE IF outOfBounds(getBoatCells(
                [st.players[player].boat EXCEPT
                    !.position = newPositionOf(@, direction, spaces)]))
         THEN "Move would go out of bounds"
    ELSE ""

\* move without the check of the distance
moveRejection_anyDistance(st, player, direction, spaces) ==
    IF st.isGameOver THEN "Game is already over"
    ELSE IF st.currentTurn # player THEN "Not your turn"
    ELSE IF outOfBounds(getBoatCells(
                [st.players[player].boat EXCEPT
                    !.position = newPositionOf(@, direction, spaces)]))
         THEN "Move would go out of bounds"
    ELSE ""

\* move with the check of the distance ahead of the others
moveRejection_distanceFirst(st, player, direction, spaces) ==
    IF spaces < 1 \/ spaces > 2 THEN "Can only move 1 or 2 spaces"
    ELSE IF st.isGameOver THEN "Game is already over"
    ELSE IF st.currentTurn # player THEN "Not your turn"
    ELSE IF outOfBounds(getBoatCells(
                [st.players[player].boat EXCEPT
                    !.position = newPositionOf(@, direction, spaces)]))
         THEN "Move would go out of bounds"
    ELSE ""

\* move for boats hit less than twice only
moveRejection_crippled(st, player, direction, spaces) ==
    IF st.isGameOver THEN "Game is already over"
    ELSE IF st.currentTurn # player THEN "Not your turn"
    ELSE IF spaces < 1 \/ spaces > 2 THEN "Can only move 1 or 2 spaces"
    ELSE IF Cardinality(st.players[player].boat.hits) >= BOAT_LENGTH - 1
         THEN "Move would go out of bounds"
    ELSE IF outOfBounds(getBoatCells(
                [st.players[player].boat EXCEPT
                    !.position = newPositionOf(@, direction, spaces)]))
         THEN "Move would go out of bounds"
    ELSE ""

\* The check of move that fails first, "" when none does.
moveRejection(st, player, direction, spaces) ==
    IF st.isGameOver THEN "Game is already over"
    ELSE IF st.currentTurn # player THEN "Not your turn"
    ELSE IF spaces < 1 \/ spaces > 2 THEN "Can only move 1 or 2 spaces"
    ELSE IF outOfBounds(getBoatCells(
                [st.players[player].boat EXCEPT
                    !.position = newPositionOf(@, direction, spaces)]))
         THEN "Move would go out of bounds"
    ELSE ""

\* a collision that passes the turn on
endByCollision_switches(st, player, opponent) ==
    switchTurn([st EXCEPT !.isGameOver = TRUE,
                          !.winner = opponent,
                          !.winReason = <<player, " collided with ", opponent, "'s boat!">>])

\* a collision that names no reason
endByCollision_noReason(st, player, opponent) ==
    [st EXCEPT !.isGameOver = TRUE,
               !.winner = opponent]

endByCollision(st, player, opponent) ==
    [st EXCEPT !.isGameOver = TRUE,
               !.winner = opponent,
               !.winReason = <<player, " collided with ", opponent, "'s boat!">>]

\* a move that puts an unharmed boat at the new anchor
applyMove_freshBoat(st, player, newPosition) ==
    switchTurn([st EXCEPT !.players[player].boat.position = newPosition,
                          !.players[player].boat.hits = {}])

applyMove(st, player, newPosition) ==
    switchTurn([st EXCEPT !.players[player].boat.position = newPosition])

\* a move that also loses on the placements it passes through
moveAccepted_sweeps(st, player, direction, spaces) ==
    LET boat == st.players[player].boat
        newPosition == newPositionOf(boat.position, direction, spaces)
        opponent == IF player = "player1" THEN "player2" ELSE "player1"
        opponentCells == getBoatCells(st.players[opponent].boat)
        passed(n) == getBoatCells(
            [boat EXCEPT !.position = newPositionOf(boat.position, direction, n)])
    IN IF \E n \in 1..spaces : collides(passed(n), opponentCells)
       THEN [state |-> endByCollision(st, player, opponent),
             result |-> [success |-> TRUE,
                         message |-> Text("You collided with the enemy boat! You lose!"),
                         collision |-> TRUE]]
       ELSE [state |-> applyMove(st, player, newPosition),
             result |-> [success |-> TRUE,
                         message |->
                           <<"Moved ", direction, " ">> \o NumberToString(spaces)
                           \o <<" space(s). New position: (">>
                           \o NumberToString(newPosition.row) \o <<", ">>
                           \o NumberToString(newPosition.col) \o <<")">>]]

\* move past its checks of the game, the turn, the distance and the grid
\* (lines 301-328)
moveAccepted(st, player, direction, spaces) ==
    LET boat == st.players[player].boat
        newPosition == newPositionOf(boat.position, direction, spaces)
        newCells == getBoatCells([boat EXCEPT !.position = newPosition])
        opponent == IF player = "player1" THEN "player2" ELSE "player1"
        opponentCells == getBoatCells(st.players[opponent].boat)
    IN IF collides(newCells, opponentCells)
       THEN [state |-> endByCollision(st, player, opponent),
             result |-> [success |-> TRUE,
                         message |-> Text("You collided with the enemy boat! You lose!"),
                         collision |-> TRUE]]
       ELSE [state |-> applyMove(st, player, newPosition),
             result |-> [success |-> TRUE,
                         message |->
                           <<"Moved ", direction, " ">> \o NumberToString(spaces)
                           \o <<" space(s). New position: (">>
                           \o NumberToString(newPosition.row) \o <<", ">>
                           \o NumberToString(newPosition.col) \o <<")">>]]

\* a move that commits the new anchor before it is checked
move_commitsFirst(st, player, direction, spaces) ==
    LET rejection == moveRejection(st, player, direction, spaces) IN
    IF rejection = "Move would go out of bounds"
    THEN [state |-> [st EXCEPT !.players[player].boat.position =
                                  newPositionOf(@, direction, spaces)],
          result |-> [success |-> FALSE, message |-> Text(rejection)]]
    ELSE IF rejection # ""
    THEN [state |-> st, result |-> [success |-> FALSE, message |-> Text(rejection)]]
    ELSE moveAccepted(st, player, direction, spaces)

\* move(player, direction, spaces): the state after the call and the value returned.
move(st, player, direction, spaces) ==
    LET rejection == moveRejection(st, player, direction, spaces) IN
    IF rejection # ""
    THEN [state |-> st, result |-> [success |-> FALSE, message |-> Text(rejection)]]
    ELSE moveAccepted(st, player, direction, spaces)

----------------------------------------------------------------------------
(* Queries *)

\* key.split(','): the pieces of key between the commas
RECURSIVE split(_)
split(key) ==
    IF \A i \in 1..Len(key) : key[i] # ","
    THEN <<key>>
    ELSE LET first == CHOOSE i \in 1..Len(key) :
                         key[i] = "," /\ \A j \in 1..(i - 1) : key[j] # ","
         IN <<SubSeq(key, 1, first - 1)>> \o split(SubSeq(key, first + 1, Len(key)))

DigitValue(char) == CHOOSE d \in 0..9 : DigitChar[d + 1] = char

RECURSIVE ParseDigits(_)
ParseDigits(text) ==
    IF text = << >> THEN 0
    ELSE ParseDigits(SubSeq(text, 1, Len(text) - 1)) * 10 + DigitValue(text[Len(text)])

\* Number(text) for the text of an integer
Number(text) ==
    IF text # << >> /\ text[1] = "-" THEN 0 - ParseDigits(Tail(text))
    ELSE ParseDigits(text)

\* a view whose shot results are recomputed against the opponent's boat
getPlayerView_liveResults(st, player) ==
    LET playerState == st.players[player]
        boatCells == getBoatCells(playerState.boat)
        opponentCells == getBoatCells(st.players[Opponent(player)].boat)
        shotsHistory ==
            [i \in 1..Len(playerState.shotsHistory) |->
                LET parts == split(playerState.shotsHistory[i].key)
                    position == Position(Number(parts[1]), Number(parts[2]))
                IN [position |-> position,
                    result |-> IF hitCellIndex(opponentCells, position) # 0 - 1
                               THEN "hit" ELSE "miss"]]
    IN [gridSize |-> st.gridSize,
        myBoat |-> [cells |-> boatCells, hits |-> Cardinality(playerState.boat.hits)],
        myShotsHistory |-> shotsHistory,
        currentTurn |-> st.currentTurn,
        isGameOver |-> st.isGameOver,
        winner |-> st.winner,
        winReason |-> st.winReason,
        turnNumber |-> st.turnNumber]

getPlayerView(st, player) ==
    LET playerState == st.players[player]
        boatCells == getBoatCells(playerState.boat)
        shotsHistory ==
            [i \in 1..Len(playerState.shotsHistory) |->
                LET parts == split(playerState.shotsHistory[i].key)
                IN [position |-> Position(Number(parts[1]), Number(parts[2])),
                    result |-> playerState.shotsHistory[i].value]]
    IN [gridSize |-> st.gridSize,
        myBoat |-> [cells |-> boatCells, hits |-> Cardinality(playerState.boat.hits)],
        myShotsHistory |-> shotsHistory,
        currentTurn |-> st.currentTurn,
        isGameOver |-> st.isGameOver,
        winner |-> st.winner,
        winReason |-> st.winReason,
        turnNumber |-> st.turnNumber]

\* The concatenation of a sequence of strings
RECURSIVE Concat(_)
Concat(texts) ==
    IF texts = << >> THEN << >> ELSE Head(texts) \o Concat(Tail(texts))

\* text.padStart(2, ' ')
padStart2(text) == IF Len(text) < 2 THEN <<" ">> \o text ELSE text

\* The markers of visualizeBoard
WATER == "~"
BOAT == "█"
HIT == "X"
MISS == "○"

\* a grid that adds the shot marker to the marker a cell has
boardGrid_stacks(view) ==
    [r \in 0..(GRID_SIZE - 1) |-> [c \in 0..(GRID_SIZE - 1) |->
        LET shots == {i \in 1..Len(view.myShotsHistory) :
                         view.myShotsHistory[i].position = Position(r, c)}
            cells == {i \in 1..Len(view.myBoat.cells) :
                         view.myBoat.cells[i] = Position(r, c)}
            under == IF cells # {} THEN "█" ELSE ""
        IN IF shots # {}
           THEN LET last == CHOOSE i \in shots : \A j \in shots : j <= i
                IN IF view.myShotsHistory[last].result = "hit"
                   THEN IF under = "" THEN "X" ELSE "█X"
                   ELSE IF under = "" THEN "○" ELSE "█○"
           ELSE IF cells # {} THEN BOAT
           ELSE WATER]]

\* a grid that marks the boat after the shots
boardGrid_boatOnTop(view) ==
    [r \in 0..(GRID_SIZE - 1) |-> [c \in 0..(GRID_SIZE - 1) |->
        LET shots == {i \in 1..Len(view.myShotsHistory) :
                         view.myShotsHistory[i].position = Position(r, c)}
            cells == {i \in 1..Len(view.myBoat.cells) :
                         view.myBoat.cells[i] = Position(r, c)}
        IN IF cells # {} THEN BOAT
           ELSE IF shots # {}
           THEN LET last == CHOOSE i \in shots : \A j \in shots : j <= i
                IN IF view.myShotsHistory[last].result = "hit" THEN HIT ELSE MISS
           ELSE WATER]]

\* The grid of visualizeBoard: water, then the viewer's boat, then its shots
\* in the order of the view, a later write to a cell replacing an earlier one.
boardGrid(view) ==
    [r \in 0..(GRID_SIZE - 1) |-> [c \in 0..(GRID_SIZE - 1) |->
        LET shots == {i \in 1..Len(view.myShotsHistory) :
                         view.myShotsHistory[i].position = Position(r, c)}
            cells == {i \in 1..Len(view.myBoat.cells) :
                         view.myBoat.cells[i] = Position(r, c)}
        IN IF shots # {}
           THEN LET last == CHOOSE i \in shots : \A j \in shots : j <= i
                IN IF view.myShotsHistory[last].result = "hit" THEN HIT ELSE MISS
           ELSE IF cells # {} THEN BOAT
           ELSE WATER]]

\* array.join(' ') of a row of the grid
joinRow(row) ==
    Concat([c \in 1..GRID_SIZE |->
               IF c = 1 THEN <<row[c - 1]>> ELSE <<" ", row[c - 1]>>])

visualizeBoard(st, player) ==
    LET view == getPlayerView(st, player)
        grid == boardGrid(view)
        header == <<"   ">>
                  \o Concat([c \in 1..GRID_SIZE |-> NumberToString(c - 1) \o <<" ">>])
                  \o <<"\n">>
        rows == Concat([r \in 1..GRID_SIZE |->
                          padStart2(NumberToString(r - 1)) \o <<" ">>
                          \o joinRow(grid[r - 1]) \o <<"\n">>])
    IN header \o rows
       \o <<"\nLegend: ~ = water, █ = your boat, X = hit, ○ = miss\n">>
       \o <<"Your boat hits taken: ">> \o NumberToString(view.myBoat.hits)
       \o <<"/">> \o NumberToString(BOAT_LENGTH) \o <<"\n">>
       \o <<"Turn: ">> \o NumberToString(view.turnNumber)
       \o <<", Current: ", view.currentTurn, "\n">>

----------------------------------------------------------------------------
(* The calls a caller makes *)

\* A caller aims at a cell of the opponent's boat, at a fixed cell of the
\* grid or outside the grid.
ProbeTargets == {Position(0, 1), Position(0 - 1, 0), Position(0, GRID_SIZE)}

Targets(st, player) ==
    LET cells == getBoatCells(st.players[Opponent(player)].boat)
    IN {cells[i] : i \in 1..BOAT_LENGTH} \cup ProbeTargets

\* The number of actions that have switched the turn since the last reset.
ActionsDone(st) ==
    2 * (st.turnNumber - 1) + (IF st.currentTurn = "player2" THEN 1 ELSE 0)

Init ==
    /\ state \in initializeGame
    /\ lastCall = [op |-> "new"]
    /\ lastResult = [success |-> TRUE]

Fire ==
    /\ ActionsDone(state) < MaxActions
    /\ \E player \in Player :
         \E target \in Targets(state, player) :
           LET r == fire(state, player, target) IN
             /\ state' = r.state
             /\ lastResult' = r.result
             /\ lastCall' = [op |-> "fire", player |-> player]

Move ==
    /\ ActionsDone(state) < MaxMoveActions
    /\ \E player \in Player, direction \in Direction, spaces \in 0..MaxSpaces :
          LET r == move(state, player, direction, spaces) IN
            /\ state' = r.state
            /\ lastResult' = r.result
            /\ lastCall' = [op |-> "move", player |-> player]

Reset ==
    /\ state' \in initializeGame
    /\ lastCall' = [op |-> "reset"]
    /\ lastResult' = [success |-> TRUE]

Next == Fire \/ Move \/ Reset

Spec == Init /\ [][Next]_vars

\* The games whose states getPlayerView and visualizeBoard are asked about:
\* the same calls, fewer of them.
ViewFire == ActionsDone(state) < MaxViewActions /\ Fire

ViewMove == ActionsDone(state) < MaxViewActions /\ Move

ViewNext == ViewFire \/ ViewMove \/ Reset

ViewSpec == Init /\ [][ViewNext]_vars

----------------------------------------------------------------------------
(* initializeGame, statement by statement *)

\* The values Math.floor(Math.random() * (max + 1)) is sampled at here: the
\* lowest and the highest of its range, and 5 and 7 inside it.
Spread == [max \in 0..GRID_SIZE |-> {0, 5, 7, max}]

\* a loop that regenerates for as long as the boats are too close
retry_unbounded(player1Boat, player2Boat, attempts) ==
    boatsTooClose(player1Boat, player2Boat)

\* The condition of the while loop (line 66)
retry(player1Boat, player2Boat, attempts) ==
    boatsTooClose(player1Boat, player2Boat) /\ attempts < MAX_ATTEMPTS

\* this.state before the constructor has assigned it
unassigned == [assigned |-> FALSE]

\* The call of initializeGame is about to generate the boats: lastCall holds
\* the position in the call and its locals, state the GameState once returned.
SpawnInit ==
    /\ state = unassigned
    /\ lastCall = [op |-> "initializeGame", pc |-> "generate"]
    /\ lastResult = [success |-> TRUE]

\* Lines 61-65
SpawnGenerate ==
    /\ lastCall.pc = "generate"
    /\ \E player1Boat \in generateRandomBoat(Spread),
          player2Boat \in generateRandomBoat(Spread) :
         lastCall' = [op |-> "initializeGame", pc |-> "loop",
                      player1Boat |-> player1Boat,
                      player2Boat |-> player2Boat,
                      attempts |-> 0]
    /\ UNCHANGED <<state, lastResult>>

\* Lines 66-69, one turn of the loop
SpawnRegenerate ==
    /\ lastCall.pc = "loop"
    /\ retry(lastCall.player1Boat, lastCall.player2Boat, lastCall.attempts)
    /\ \E player2Boat \in generateRandomBoat(Spread) :
         lastCall' = [lastCall EXCEPT !.player2Boat = player2Boat,
                                      !.attempts = @ + 1]
    /\ UNCHANGED <<state, lastResult>>

\* Lines 66 and 71-88, the loop left and the state returned
SpawnReturn ==
    /\ lastCall.pc = "loop"
    /\ ~retry(lastCall.player1Boat, lastCall.player2Boat, lastCall.attempts)
    /\ state' = newGame(lastCall.player1Boat, lastCall.player2Boat)
    /\ lastCall' = [lastCall EXCEPT !.pc = "done"]
    /\ UNCHANGED lastResult

SpawnNext == SpawnGenerate \/ SpawnRegenerate \/ SpawnReturn

\* The call runs on: nothing suspends synchronous code.
SpawnSpec == SpawnInit /\ [][SpawnNext]_vars /\ WF_vars(SpawnNext)

----------------------------------------------------------------------------
(* The objects a caller gets back *)

\* The fields an object spread ({ ...this.state }) copies by value; players
\* is copied as a reference to the engine's own players object.
TopLevel(st) ==
    [gridSize |-> st.gridSize,
     currentTurn |-> st.currentTurn,
     isGameOver |-> st.isGameOver,
     winner |-> st.winner,
     winReason |-> st.winReason,
     turnNumber |-> st.turnNumber]

\* getGameState(): a new object with the top-level fields of this.state
getGameState(st) ==
    [state |-> st, result |-> [kind |-> "copy", top |-> TopLevel(st)]]

\* a getPlayerView that takes the shots out of the history it reads
getPlayerViewCall_drains(st, player) ==
    [state |-> [st EXCEPT !.players[player].shotsHistory = << >>],
     result |-> [kind |-> "view", value |-> getPlayerView(st, player)]]

\* getPlayerView(player) as a call: the state it leaves and the value returned
getPlayerViewCall(st, player) ==
    [state |-> st, result |-> [kind |-> "view", value |-> getPlayerView(st, player)]]

\* visualizeBoard(player) as a call
visualizeBoardCall(st, player) ==
    [state |-> getPlayerViewCall(st, player).state,
     result |-> [kind |-> "text", value |-> visualizeBoard(st, player)]]

\* reset(): this.state is replaced and returned itself, no copy
reset(fresh) ==
    [state |-> fresh, result |-> [kind |-> "live"]]

\* What a caller reads through the object it holds.
Seen(held, st) ==
    IF held.kind = "live" THEN st
    ELSE [gridSize |-> held.top.gridSize,
          players |-> st.players,
          currentTurn |-> held.top.currentTurn,
          isGameOver |-> held.top.isGameOver,
          winner |-> held.top.winner,
          winReason |-> held.top.winReason,
          turnNumber |-> held.top.turnNumber]

\* The writes of a caller to the object it holds
Writes == {"currentTurn", "position", "hits"}

\* The object a caller holds, and the engine's state, after the write: a
\* write below players goes to the object the engine uses, a top-level write
\* to the held object, which is this.state itself when reset returned it.
write(held, st, field) ==
    LET written ==
          CASE field = "currentTurn" -> [Seen(held, st) EXCEPT !.currentTurn = "player2"]
            [] field = "position" ->
                 [Seen(held, st) EXCEPT !.players["player1"].boat.position = Position(7, 7)]
            [] field = "hits" ->
                 [Seen(held, st) EXCEPT !.players["player2"].boat.hits = @ \cup {cellIndexKey(0)}]
    IN IF held.kind = "live"
       THEN [state |-> written, held |-> held]
       ELSE [state |-> [st EXCEPT !.players = written.players],
             held |-> [held EXCEPT !.top = TopLevel(written)]]

Holds(kinds) == "kind" \in DOMAIN lastResult /\ lastResult.kind \in kinds

GetGameState ==
    \E r \in {getGameState(state)} :
      /\ state' = r.state
      /\ lastResult' = r.result
      /\ lastCall' = [op |-> "getGameState"]

GetPlayerView ==
    \E player \in Player :
      \E r \in {getPlayerViewCall(state, player)} :
        /\ state' = r.state
        /\ lastResult' = r.result
        /\ lastCall' = [op |-> "getPlayerView", player |-> player]

VisualizeBoard ==
    \E player \in Player :
      \E r \in {visualizeBoardCall(state, player)} :
        /\ state' = r.state
        /\ lastResult' = r.result
        /\ lastCall' = [op |-> "visualizeBoard", player |-> player]

CallReset ==
    \E fresh \in initializeGame :
      \E r \in {reset(fresh)} :
        /\ state' = r.state
        /\ lastResult' = r.result
        /\ lastCall' = [op |-> "reset"]

CallerWrites ==
    /\ Holds({"live", "copy"})
    /\ \E field \in Writes :
         \E w \in {write(lastResult, state, field)} :
           /\ state' = w.state
           /\ lastResult' = w.held
           /\ lastCall' = [op |-> "write", field |-> field]

\* fire and move of a caller that keeps the object it holds
HeldFire ==
    /\ ActionsDone(state) < MaxHeldActions
    /\ \E player \in Player :
         \E target \in Targets(state, player) :
           /\ state' = fire(state, player, target).state
           /\ lastCall' = [op |-> "fire", player |-> player]
           /\ UNCHANGED lastResult

HeldMove ==
    /\ ActionsDone(state) < MaxHeldActions
    /\ \E player \in Player, direction \in Direction, spaces \in 0..MaxSpaces :
         /\ state' = move(state, player, direction, spaces).state
         /\ lastCall' = [op |-> "move", player |-> player]
         /\ UNCHANGED lastResult

QueryNext ==
    \/ GetGameState \/ GetPlayerView \/ VisualizeBoard
    \/ CallReset \/ CallerWrites
    \/ HeldFire \/ HeldMove

QuerySpec == Init /\ [][QueryNext]_vars

----------------------------------------------------------------------------
(* The battleship route and the tools of its agents *)

\* In these behaviours lastCall is the request the route is handling, with
\* the tools' module variable currentPlayer, and lastResult the value the
\* last tool returned.

\* a tool that acts as whoever's turn it is
toolPlayer_live(call, st) == st.currentTurn

\* The player a tool acts as: the module variable currentPlayer
toolPlayer(call, st) == call.currentPlayer

\* The arguments the input schemas of the tools let through
MAX_COORDINATE == 9
maxHits == 3
ToolTargets(st, player) == Targets(st, player) \cap
    {Position(r, c) : r \in 0..MAX_COORDINATE, c \in 0..MAX_COORDINATE}
ToolSpaces == {1, 2}

\* get-my-status
getMyStatus(call, st) ==
    LET player == toolPlayer(call, st)
        view == getPlayerView(st, player)
        hits == SelectSeq(view.myShotsHistory, LAMBDA shot : shot.result = "hit")
        misses == SelectSeq(view.myShotsHistory, LAMBDA shot : shot.result = "miss")
    IN [player |-> player,
        boatCells |-> view.myBoat.cells,
        hitsOnMyBoat |-> view.myBoat.hits,
        maxHits |-> maxHits,
        myHitsOnEnemy |-> [i \in 1..Len(hits) |-> hits[i].position],
        myMisses |-> [i \in 1..Len(misses) |-> misses[i].position],
        totalShots |-> Len(view.myShotsHistory),
        currentTurn |-> view.currentTurn,
        isMyTurn |-> view.currentTurn = player,
        turnNumber |-> view.turnNumber,
        isGameOver |-> view.isGameOver,
        winner |-> view.winner]

RouteInit ==
    /\ state \in initializeGame
    /\ lastCall = [op |-> "idle", currentPlayer |-> "player1"]
    /\ lastResult = [success |-> TRUE]

\* POST { action: 'turn' } up to the call of agent.generate
TurnBegin ==
    /\ lastCall.op = "idle"
    /\ ActionsDone(state) < MaxRouteActions
    /\ lastCall' = IF getGameState(state).result.top.isGameOver
                   THEN lastCall
                   ELSE [op |-> "turn",
                         currentPlayer |-> getGameState(state).result.top.currentTurn,
                         began |-> state.currentTurn,
                         calls |-> 0,
                         succeeded |-> 0]
    /\ lastResult' = [success |-> TRUE]
    /\ UNCHANGED state

\* The request after a tool has returned result
Called(result) ==
    [lastCall EXCEPT !.calls = @ + 1,
                     !.succeeded = IF result.success THEN @ + 1 ELSE @]

ToolFire ==
    /\ lastCall.op = "turn" /\ lastCall.calls < MaxToolCalls
    /\ \E target \in ToolTargets(state, toolPlayer(lastCall, state)) :
         \E r \in {fire(state, toolPlayer(lastCall, state), target)} :
           /\ state' = r.state
           /\ lastResult' = r.result
           /\ lastCall' = Called(r.result)

ToolMove ==
    /\ lastCall.op = "turn" /\ lastCall.calls < MaxToolCalls
    /\ \E direction \in Direction, spaces \in ToolSpaces :
         \E r \in {move(state, toolPlayer(lastCall, state), direction, spaces)} :
           /\ state' = r.state
           /\ lastResult' = r.result
           /\ lastCall' = Called(r.result)

ToolStatus ==
    /\ lastCall.op = "turn" /\ lastCall.calls < MaxToolCalls
    /\ lastResult' = getMyStatus(lastCall, state)
    /\ lastCall' = [lastCall EXCEPT !.calls = @ + 1]
    /\ UNCHANGED state

ToolVisualize ==
    /\ lastCall.op = "turn" /\ lastCall.calls < MaxToolCalls
    /\ lastResult' = [visualization |->
                         visualizeBoard(state, toolPlayer(lastCall, state))]
    /\ lastCall' = [lastCall EXCEPT !.calls = @ + 1]
    /\ UNCHANGED state

\* agent.generate has returned and the response is sent
TurnEnd ==
    /\ lastCall.op = "turn"
    /\ lastCall' = [op |-> "idle", currentPlayer |-> lastCall.currentPlayer]
    /\ lastResult' = [success |-> TRUE]
    /\ UNCHANGED state

\* POST { action: 'reset' }: a new engine
RouteReset ==
    /\ lastCall.op = "idle"
    /\ state' \in initializeGame
    /\ UNCHANGED <<lastCall, lastResult>>

RouteNext ==
    \/ TurnBegin \/ ToolFire \/ ToolMove \/ ToolStatus \/ ToolVisualize
    \/ TurnEnd \/ RouteReset

RouteSpec == RouteInit /\ [][RouteNext]_vars

----------------------------------------------------------------------------
(* Callers that sweep the grid *)

\* In these behaviours each player fires at the grid position by position,
\* player1 from the first position on and player2 from the last one back, a
\* player whose boat has just been hit may move it instead, and a player with
\* no position left to fire at moves. lastCall counts the moves of the first
\* kind.

\* The position a player fires at next.
SweepTarget(st, player) ==
    LET fired == Len(st.players[player].shotsHistory)
        k == IF player = "player1" THEN fired ELSE GRID_SIZE * GRID_SIZE - 1 - fired
    IN Position(k \div GRID_SIZE, k % GRID_SIZE)

SweepInit ==
    /\ state \in initializeGame
    /\ lastCall = [op |-> "new", dodges |-> 0]
    /\ lastResult = [success |-> TRUE]

SweepFire ==
    /\ ActionsDone(state) < MaxSweepActions
    /\ Len(state.players[state.currentTurn].shotsHistory) < GRID_SIZE * GRID_SIZE
    /\ \E r \in {fire(state, state.currentTurn, SweepTarget(state, state.currentTurn))} :
         /\ state' = r.state
         /\ lastResult' = r.result
         /\ lastCall' = [op |-> "fire", player |-> state.currentTurn,
                         dodges |-> lastCall.dodges]

SweepDodge ==
    /\ ActionsDone(state) < MaxSweepActions
    /\ lastCall.op = "fire" /\ "hit" \in DOMAIN lastResult /\ lastResult.hit
    /\ lastCall.dodges < MaxDodges
    /\ \E direction \in Direction, spaces \in {1, 2} :
         \E r \in {move(state, state.currentTurn, direction, spaces)} :
           /\ state' = r.state
           /\ lastResult' = r.result
           /\ lastCall' = [op |-> "move", player |-> state.currentTurn,
                           dodges |-> lastCall.dodges + 1]

SweepMove ==
    /\ ActionsDone(state) < MaxSweepActions
    /\ Len(state.players[state.currentTurn].shotsHistory) = GRID_SIZE * GRID_SIZE
    /\ \E direction \in Direction, spaces \in {1, 2} :
         \E r \in {move(state, state.currentTurn, direction, spaces)} :
           /\ state' = r.state
           /\ lastResult' = r.result
           /\ lastCall' = [op |-> "move", player |-> state.currentTurn,
                           dodges |-> lastCall.dodges]

SweepNext == SweepFire \/ SweepDodge \/ SweepMove

SweepSpec == SweepInit /\ [][SweepNext]_vars

----------------------------------------------------------------------------
(* Requests to the battleship route that overlap *)

\* In these behaviours lastCall holds the tools' module variable
\* currentPlayer and the requests in flight: for each its position in the
\* handler, the player it selected, the number of tool calls of its agent,
\* the engine the handler got from getBattleshipEngine and the engine the
\* last tool of its agent got from there. lastResult is the value the last
\* tool or request returned.

Request == 1..MaxRequests

\* The engine of the module variable battleshipEngine, and an engine that
\* resetBattleshipEngine has replaced, left in the state it had then.
singleton == [replaced |-> FALSE]
replacedEngine(st) == [replaced |-> TRUE, state |-> st]

\* The state of the engine a handler holds.
engineState(engine, st) == IF engine.replaced THEN engine.state ELSE st

\* getSanitizedState(engine.getGameState()), st the state of engine
getSanitizedState(st) ==
    LET seen == Seen(getGameState(st).result, st)
    IN [gridSize |-> seen.gridSize,
        currentTurn |-> seen.currentTurn,
        isGameOver |-> seen.isGameOver,
        winner |-> seen.winner,
        winReason |-> seen.winReason,
        turnNumber |-> seen.turnNumber,
        player1Hits |-> Cardinality(seen.players["player1"].boat.hits),
        player2Hits |-> Cardinality(seen.players["player2"].boat.hits)]

OverlapInit ==
    /\ state \in initializeGame
    /\ lastCall = [currentPlayer |-> "player1",
                   resets |-> 0,
                   requests |-> [i \in Request |-> [op |-> "idle"]]]
    /\ lastResult = [success |-> TRUE]

\* POST { action: 'turn' } up to the call of agent.generate
OverlapTurnBegin(i) ==
    /\ lastCall.requests[i].op = "idle"
    /\ ActionsDone(state) < MaxRouteActions
    /\ \A top \in {getGameState(state).result.top} :
         IF top.isGameOver
         THEN /\ lastResult' = [request |-> i,
                                state |-> getSanitizedState(state),
                                message |-> "Game is already over"]
              /\ lastCall' = [lastCall EXCEPT !.requests[i] = [op |-> "done"]]
         ELSE /\ lastCall' = [lastCall EXCEPT
                                 !.currentPlayer = top.currentTurn,
                                 !.requests[i] =
                                     [op |-> "turn", began |-> top.currentTurn,
                                      calls |-> 0, engine |-> singleton,
                                      acted |-> singleton]]
              /\ lastResult' = [request |-> i]
    /\ UNCHANGED state

\* The agent of request i may call a tool
Calling(i) ==
    /\ lastCall.requests[i].op = "turn"
    /\ lastCall.requests[i].calls < MaxOverlapCalls

\* lastCall after a tool call of the agent of request i
CalledBy(i) ==
    [lastCall EXCEPT !.requests[i].calls = @ + 1, !.requests[i].acted = singleton]

OverlapFire(i) ==
    /\ Calling(i)
    /\ \E target \in ToolTargets(state, toolPlayer(lastCall, state)) :
         \E r \in {fire(state, toolPlayer(lastCall, state), target)} :
           /\ state' = r.state
           /\ lastResult' = [request |-> i, tool |-> "fire",
                             player |-> toolPlayer(lastCall, state),
                             result |-> r.result]
    /\ lastCall' = CalledBy(i)

OverlapMove(i) ==
    /\ Calling(i)
    /\ \E direction \in Direction, spaces \in ToolSpaces :
         \E r \in {move(state, toolPlayer(lastCall, state), direction, spaces)} :
           /\ state' = r.state
           /\ lastResult' = [request |-> i, tool |-> "move-boat",
                             player |-> toolPlayer(lastCall, state),
                             result |-> r.result]
    /\ lastCall' = CalledBy(i)

OverlapStatus(i) ==
    /\ Calling(i)
    /\ lastResult' = [request |-> i, tool |-> "get-my-status",
                      player |-> toolPlayer(lastCall, state),
                      result |-> getMyStatus(lastCall, state)]
    /\ lastCall' = CalledBy(i)
    /\ UNCHANGED state

OverlapVisualize(i) ==
    /\ Calling(i)
    /\ lastResult' = [request |-> i, tool |-> "visualize-ocean",
                      player |-> toolPlayer(lastCall, state),
                      result |-> [visualization |->
                          visualizeBoard(state, toolPlayer(lastCall, state))]]
    /\ lastCall' = CalledBy(i)
    /\ UNCHANGED state

\* agent.generate has returned: engine.getGameState() of the engine the
\* handler holds goes into the response
OverlapTurnEnd(i) ==
    /\ lastCall.requests[i].op = "turn"
    /\ lastResult' =
          [request |-> i,
           state |-> getSanitizedState(
                        engineState(lastCall.requests[i].engine, state)),
           agent |-> lastCall.requests[i].began]
    /\ lastCall' = [lastCall EXCEPT !.requests[i] = [op |-> "done"]]
    /\ UNCHANGED state

\* POST { action: 'reset' }: a new engine; the handlers in flight keep theirs
OverlapReset ==
    /\ lastCall.resets < MaxResets
    /\ \E fresh \in initializeGame :
         /\ state' = fresh
         /\ lastResult' = [state |-> getSanitizedState(fresh),
                           message |-> "Game reset"]
    /\ lastCall' = [lastCall EXCEPT !.resets = @ + 1, !.requests =
          [i \in Request |->
             IF lastCall.requests[i].op = "turn"
             THEN [lastCall.requests[i] EXCEPT
                     !.engine = IF @.replaced THEN @ ELSE replacedEngine(state),
                     !.acted = IF @.replaced THEN @ ELSE replacedEngine(state)]
             ELSE lastCall.requests[i]]]

\* 'turn' requests that overlap
OverlapNext ==
    \E i \in Request :
       \/ OverlapTurnBegin(i) \/ OverlapFire(i) \/ OverlapMove(i)
       \/ OverlapStatus(i) \/ OverlapVisualize(i) \/ OverlapTurnEnd(i)

OverlapSpec == OverlapInit /\ [][OverlapNext]_vars

\* One 'turn' request and the 'reset' requests that arrive while it is handled
StaleNext ==
    \/ OverlapTurnBegin(1) \/ OverlapFire(1) \/ OverlapMove(1)
    \/ OverlapStatus(1) \/ OverlapVisualize(1) \/ OverlapTurnEnd(1)
    \/ OverlapReset

StaleSpec == OverlapInit /\ [][StaleNext]_vars

----------------------------------------------------------------------------
(* The chess route and its background advisor *)

\* In these behaviours state is what the modules hold: the moves made on the
\* engine of gameInstance (the chess library is not part of the repository:
\* a position is identified by the moves that lead to it, so two FENs are
\* equal when the moves are, and no game is over within MaxPlies moves), the
\* number of engines created before it, advisorCache and pendingAdvisorTask.
\* lastCall holds what is in flight: the advisor tasks, each with the
\* arguments of runAdvisorAnalysis, its abort signal and the engine that was
\* current when it started, and the 'move' requests, each with its
\* currentPlayer, its usedAdvisor, the engine it holds and the moves of its
\* agent. lastResult is the outcome of the last step.

ChessRequest == 1..MaxChessRequests
Task == 1..MaxTasks

\* The legal moves an agent chooses from, named by their place in the list.
LegalMoves == {"first", "second"}

\* game.fen() and game.turn() of the position after moves
fen(moves) == moves
turn(moves) == IF Len(moves) % 2 = 0 THEN "w" ELSE "b"

noAdvice == [cached |-> FALSE]
noTask == [pending |-> FALSE]

\* The engine a request holds: the one of gameInstance, or one that
\* resetChessEngine has replaced, with the moves made on it.
current == [replaced |-> FALSE]
replacedChess(moves) == [replaced |-> TRUE, game |-> moves]

\* abortController.abort() of the pending task, if any
abortPending(tasks, pending) ==
    IF pending = noTask THEN tasks
    ELSE [tasks EXCEPT ![pending.task].aborted = TRUE]

ChessInit ==
    /\ state = [game |-> << >>, engines |-> 0,
                advisorCache |-> [white |-> noAdvice, black |-> noAdvice],
                pendingAdvisorTask |-> noTask]
    /\ lastCall = [tasks |-> << >>, resets |-> 0,
                   requests |-> [i \in ChessRequest |-> [op |-> "idle"]]]
    /\ lastResult = [event |-> "start"]

\* The requests between their two awaits
InFlight == {i \in ChessRequest : lastCall.requests[i].op = "move"}

\* POST { action: 'move' } up to the call of agent.generate
ChessMoveBegin(i) ==
    /\ lastCall.requests[i].op = "idle"
    /\ Len(lastCall.tasks) + Cardinality(InFlight) < MaxTasks
    /\ LET currentPlayer == IF turn(state.game) = "w" THEN "white" ELSE "black"
           cachedAdvice == state.advisorCache[currentPlayer]
           usedAdvisor == cachedAdvice # noAdvice /\ cachedAdvice.fen = fen(state.game)
       IN /\ state' = [state EXCEPT
                          !.pendingAdvisorTask = noTask,
                          !.advisorCache[currentPlayer] =
                              IF usedAdvisor THEN noAdvice ELSE @]
          /\ lastCall' = [lastCall EXCEPT
                            !.tasks = abortPending(@, state.pendingAdvisorTask),
                            !.requests[i] = [op |-> "move",
                                             currentPlayer |-> currentPlayer,
                                             usedAdvisor |-> usedAdvisor,
                                             engine |-> current,
                                             moved |-> 0]]
          /\ lastResult' = [event |-> "begin", request |-> i]

\* make-move, called by the agent of request i with a legal move
ChessAgentMove(i) ==
    /\ lastCall.requests[i].op = "move"
    /\ lastCall.requests[i].moved < MaxAgentMoves
    /\ Len(state.game) < MaxPlies
    /\ \E mv \in LegalMoves :
         /\ state' = [state EXCEPT !.game = Append(@, mv)]
         /\ lastResult' = [event |-> "make-move", request |-> i, success |-> TRUE,
                           newFen |-> fen(Append(state.game, mv))]
    /\ lastCall' = [lastCall EXCEPT !.requests[i].moved = @ + 1]

\* agent.generate has returned: the advisor is started, the response sent
ChessMoveEnd(i) ==
    /\ lastCall.requests[i].op = "move"
    /\ LET request == lastCall.requests[i]
           game == IF request.engine.replaced THEN request.engine.game ELSE state.game
           task == Len(lastCall.tasks) + 1
       IN /\ state' = [state EXCEPT !.pendingAdvisorTask =
                          [pending |-> TRUE, player |-> request.currentPlayer,
                           task |-> task, fen |-> fen(game)]]
          /\ lastCall' = [lastCall EXCEPT
                            !.tasks = Append(@, [player |-> request.currentPlayer,
                                                 startFen |-> fen(game),
                                                 aborted |-> FALSE,
                                                 done |-> FALSE,
                                                 engines |-> state.engines]),
                            !.requests[i] = [op |-> "idle"]]
          /\ lastResult' = [event |-> "moved", request |-> i,
                            fen |-> fen(game),
                            agent |-> request.currentPlayer,
                            usedAdvisor |-> request.usedAdvisor]

\* chessAdvisorAgent.generate of task t has returned: runAdvisorAnalysis
\* returns, and the then and finally callbacks of startAdvisorInBackground run
AdvisorCompletes(t) ==
    /\ t <= Len(lastCall.tasks)
    /\ ~lastCall.tasks[t].done
    /\ LET task == lastCall.tasks[t]
           pending == state.pendingAdvisorTask
           same == pending # noTask /\ pending.fen = task.startFen
           caches == ~task.aborted /\ same
       IN /\ state' = [state EXCEPT
                          !.advisorCache[task.player] =
                              IF caches
                              THEN [cached |-> TRUE, fen |-> fen(state.game),
                                    analysis |-> [task |-> t]]
                              ELSE @,
                          !.pendingAdvisorTask = IF same THEN noTask ELSE @]
          /\ lastResult' = [event |-> "advisor", task |-> t, cached |-> caches]
    /\ lastCall' = [lastCall EXCEPT !.tasks[t].done = TRUE]

\* POST { action: 'reset' }
ChessReset ==
    /\ lastCall.resets < MaxChessResets
    /\ state' = [game |-> << >>, engines |-> state.engines + 1,
                 advisorCache |-> [white |-> noAdvice, black |-> noAdvice],
                 pendingAdvisorTask |-> noTask]
    /\ lastCall' = [tasks |-> abortPending(lastCall.tasks, state.pendingAdvisorTask),
                    resets |-> lastCall.resets + 1,
                    requests |-> [i \in ChessRequest |->
                        IF lastCall.requests[i].op = "move"
                           /\ ~lastCall.requests[i].engine.replaced
                        THEN [lastCall.requests[i] EXCEPT
                                !.engine = replacedChess(state.game)]
                        ELSE lastCall.requests[i]]]
    /\ lastResult' = [event |-> "reset", fen |-> fen(<< >>)]

ChessNext ==
    \/ \E i \in ChessRequest : ChessMoveBegin(i) \/ ChessAgentMove(i) \/ ChessMoveEnd(i)
    \/ \E t \in Task : AdvisorCompletes(t)
    \/ ChessReset

ChessSpec == ChessInit /\ [][ChessNext]_vars

----------------------------------------------------------------------------
(* Shots at every position of the grid *)

\* The first shots of a game, aimed at any position of the grid: the keys
\* fire writes are those of all GRID_SIZE * GRID_SIZE positions.
KeyFire ==
    /\ ActionsDone(state) < MaxKeyActions
    /\ \E row \in 0..(GRID_SIZE - 1), col \in 0..(GRID_SIZE - 1) :
         \E r \in {fire(state, state.currentTurn, Position(row, col))} :
           /\ state' = r.state
           /\ lastResult' = r.result
           /\ lastCall' = [op |-> "fire", player |-> state.currentTurn,
                           target |-> Position(row, col)]

KeyNext == KeyFire

KeySpec == Init /\ [][KeyNext]_vars

----------------------------------------------------------------------------
(* Vocabulary of the properties *)

\* The set of positions a boat occupies.
Occupies(boat) ==
    { Position(boat.position.row + (IF boat.orientation = "vertical" THEN k ELSE 0),
               boat.position.col + (IF boat.orientation = "horizontal" THEN k ELSE 0)) :
        k \in 0..(BOAT_LENGTH - 1) }

Other(player) == CHOOSE q \in Player : q # player

IsCall == lastCall.op \in {"fire", "move"}
CallStep == lastCall'.op \in {"fire", "move"}

Boat(st, player) == st.players[player].boat
Shots(st, player) == st.players[player].shotsHistory

\* The position a key of a shot history stands for.
KeyPosition(key) == LET parts == split(key) IN Position(Number(parts[1]), Number(parts[2]))

Has(record, name) == name \in DOMAIN record

----------------------------------------------------------------------------
(* C1: a fire or move changes the state only when the acting player is     *)
(* currentTurn; an action that succeeds without ending the game is made by *)
(* currentTurn and hands the turn to the other player, nothing else moves  *)
(* the turn, and a game starts (construction, reset) with player1: the     *)
(* actions that succeed without ending the game alternate player1,         *)
(* player2, ... from player1.                                              *)

TurnOrderStep ==
    /\ CallStep =>
         LET actor == lastCall'.player
             nonTerminal == lastResult'.success /\ ~state'.isGameOver
         IN /\ state' # state => actor = state.currentTurn
            /\ nonTerminal => /\ actor = state.currentTurn
                              /\ state'.currentTurn = Other(actor)
            /\ ~nonTerminal => state'.currentTurn = state.currentTurn
    /\ lastCall'.op = "reset" => state'.currentTurn = "player1"

TurnOrder == state.currentTurn = "player1" /\ [][TurnOrderStep]_vars

\* player2 has acted and handed the turn back to player1.
TurnOrderWitness ==
    /\ IsCall /\ lastCall.player = "player2" /\ lastResult.success
    /\ ~state.isGameOver /\ state.currentTurn = "player1" /\ state.turnNumber = 2

(* C2: once isGameOver is true, every fire and move returns success:false  *)
(* and leaves the whole state as it is; only reset leads to a state with   *)
(* isGameOver false.                                                       *)

GameOverStep ==
    /\ (state.isGameOver /\ lastCall'.op # "reset") =>
          /\ ~lastResult'.success
          /\ state' = state
    /\ lastCall'.op = "reset" => ~state'.isGameOver

GameOverAbsorbing == [][GameOverStep]_vars

\* A call was made after the game was over.
GameOverWitness ==
    /\ state.isGameOver /\ IsCall
    /\ lastResult.message = Text("Game is already over")

(* C3: a fire or move that returns success:false leaves the whole          *)
(* GameState unchanged.                                                    *)

FailureStep == (CallStep /\ ~lastResult'.success) => state' = state

FailureLeavesState == [][FailureStep]_vars

\* A move was rejected for leaving the grid.
FailureWitness ==
    /\ lastCall.op = "move" /\ ~lastResult.success
    /\ lastResult.message = Text("Move would go out of bounds")

(* C4: in every reachable state the cells of player1's boat and the cells  *)
(* of player2's boat are disjoint.                                         *)

BoatsDisjoint ==
    Occupies(Boat(state, "player1")) \cap Occupies(Boat(state, "player2")) = {}

(* C5: a boat's hit set grows only by a fire of the opponent that strikes  *)
(* a cell of the boat, and then by the index of that cell, an index it did *)
(* not hold; every successful fire at cell k of the opponent's boat leaves *)
(* index k in the hit set; the fire that brings the set to three indices   *)
(* sets isGameOver, makes the firer the winner and returns success, hit    *)
(* and sunk. Hit sets are empty when a game starts.                        *)

IndexKey(k) == <<DigitChar[k + 1]>>

CellAt(boat, k) ==
    IF boat.orientation = "horizontal"
    THEN Position(boat.position.row, boat.position.col + k)
    ELSE Position(boat.position.row + k, boat.position.col)

\* The target of the fire that a step appended to player's shot history.
NewTarget(player) ==
    KeyPosition(Shots(state', player)[Len(Shots(state', player))].key)

SinkStep ==
    \A q \in Player :
      LET p == Other(q)
          before == Boat(state, q).hits
          after == Boat(state', q).hits
          firedAtQ == /\ lastCall'.op = "fire" /\ lastCall'.player = p
                      /\ lastResult'.success
      IN /\ lastCall'.op = "reset" => after = {}
         /\ (lastCall'.op # "reset" /\ after # before) =>
               /\ firedAtQ /\ lastResult'.hit
               /\ \E k \in 0..(BOAT_LENGTH - 1) :
                     /\ CellAt(Boat(state, q), k) = NewTarget(p)
                     /\ IndexKey(k) \notin before
                     /\ after = before \cup {IndexKey(k)}
         /\ firedAtQ =>
               \A k \in 0..(BOAT_LENGTH - 1) :
                  CellAt(Boat(state, q), k) = NewTarget(p) =>
                     lastResult'.hit /\ after = before \cup {IndexKey(k)}
         /\ (after # before /\ Cardinality(after) = BOAT_LENGTH) =>
               /\ state'.isGameOver /\ state'.winner = p
               /\ lastResult'.success /\ lastResult'.hit
               /\ Has(lastResult', "sunk") /\ lastResult'.sunk

SinkExactness ==
    /\ \A q \in Player : Boat(state, q).hits = {}
    /\ [][SinkStep]_vars

\* The third hit has just sunk a boat.
SinkWitness ==
    /\ lastCall.op = "fire" /\ Has(lastResult, "sunk") /\ lastResult.sunk
    /\ Boat(state, Other(lastCall.player)).hits = {IndexKey(0), IndexKey(1), IndexKey(2)}
    /\ state.winner = lastCall.player

(* C6: each boat's hit set has between 0 and 3 elements; a boat with 3     *)
(* hits means the game is over and won by the opponent of its owner; the   *)
(* two boats never both have 3 hits.                                       *)

HitBounds ==
    /\ \A q \in Player :
          /\ Cardinality(Boat(state, q).hits) \in 0..BOAT_LENGTH
          /\ Cardinality(Boat(state, q).hits) = BOAT_LENGTH =>
                state.isGameOver /\ state.winner = Other(q)
    /\ ~(\A q \in Player : Cardinality(Boat(state, q).hits) = BOAT_LENGTH)

\* A boat is sunk while the other one has been hit too.
HitBoundsWitness ==
    \E q \in Player :
        /\ Cardinality(Boat(state, q).hits) = BOAT_LENGTH
        /\ Cardinality(Boat(state, Other(q)).hits) > 0

(* C7: in a game that is not over, every move of the current player by 1   *)
(* or 2 whose destination cells are all in the grid and share a cell with  *)
(* the opponent's boat returns success and collision, sets isGameOver and  *)
(* makes the opponent the winner, whatever the hit counts.                 *)

Shifted(position, direction, spaces) ==
    Position(position.row + (IF direction = "down" THEN spaces
                             ELSE IF direction = "up" THEN 0 - spaces ELSE 0),
             position.col + (IF direction = "right" THEN spaces
                             ELSE IF direction = "left" THEN 0 - spaces ELSE 0))

GridPositions == {Position(r, c) : r \in 0..(GRID_SIZE - 1), c \in 0..(GRID_SIZE - 1)}

Destination(st, player, direction, spaces) ==
    Occupies([Boat(st, player) EXCEPT !.position = Shifted(@, direction, spaces)])

CollisionIsFatal ==
    \A direction \in Direction, spaces \in {1, 2} :
      LET p == state.currentTurn
          q == Other(p)
          r == move(state, p, direction, spaces)
      IN (/\ ~state.isGameOver
          /\ Destination(state, p, direction, spaces) \subseteq GridPositions
          /\ Destination(state, p, direction, spaces) \cap Occupies(Boat(state, q)) # {})
         => /\ r.result.success
            /\ Has(r.result, "collision") /\ r.result.collision
            /\ r.state.isGameOver
            /\ r.state.winner = q

\* A boat that had been hit moved into the opponent's boat and lost.
CollisionWitness ==
    /\ lastCall.op = "move" /\ Has(lastResult, "collision")
    /\ state.isGameOver /\ state.winner = Other(lastCall.player)
    /\ Boat(state, lastCall.player).hits # {}

(* C8: in every reachable state the three cells of each boat have row and  *)
(* column in [0, gridSize).                                                *)

BoatsInGrid ==
    \A p \in Player : Occupies(Boat(state, p)) \subseteq GridPositions

\* A move has been committed that leaves the boat on the last row or column.
BoatsInGridWitness ==
    /\ lastCall.op = "move" /\ lastResult.success /\ ~state.isGameOver
    /\ \E cell \in Occupies(Boat(state, lastCall.player)) :
          cell.row = GRID_SIZE - 1 \/ cell.col = GRID_SIZE - 1

(* C9: a fire of a player at a position of its own shot history returns    *)
(* success:false and leaves the history as it is, and no fire or move      *)
(* removes or changes an entry of a shot history.                          *)

RepeatRejected ==
    \A p \in Player :
      \A i \in 1..Len(Shots(state, p)) :
        LET r == fire(state, p, KeyPosition(Shots(state, p)[i].key))
        IN /\ ~r.result.success
           /\ Shots(r.state, p) = Shots(state, p)

ShotsKeptStep ==
    lastCall'.op # "reset" =>
       \A p \in Player :
          /\ Len(Shots(state, p)) <= Len(Shots(state', p))
          /\ SubSeq(Shots(state', p), 1, Len(Shots(state, p))) = Shots(state, p)

NoRepeatShot == []RepeatRejected /\ [][ShotsKeptStep]_vars

\* A fire was rejected as a repeat after the opponent's boat had moved onto
\* the position: the recorded miss is now a cell of the opponent's boat.
NoRepeatShotWitness ==
    /\ lastCall.op = "fire"
    /\ lastResult.message = Text("Already fired at this position")
    /\ \E i \in 1..Len(Shots(state, lastCall.player)) :
          /\ Shots(state, lastCall.player)[i].value = "miss"
          /\ KeyPosition(Shots(state, lastCall.player)[i].key)
                \in Occupies(Boat(state, Other(lastCall.player)))

(* C10: for each player X, every position of getPlayerView(X) (the myBoat  *)
(* cells and the myShotsHistory positions) that is a cell of the           *)
(* opponent's boat is a position of X's own shotsHistory.                  *)

ViewPositions(view) ==
    {view.myBoat.cells[i] : i \in 1..Len(view.myBoat.cells)}
    \cup {view.myShotsHistory[i].position : i \in 1..Len(view.myShotsHistory)}

FogOfWar ==
    \A X \in Player :
      \A pos \in ViewPositions(getPlayerView(state, X)) :
         pos \in Occupies(Boat(state, Other(X))) =>
            \E i \in 1..Len(Shots(state, X)) : Shots(state, X)[i].key = positionKey(pos)

(* C11: getPlayerView(X) and visualizeBoard(X) return the same results in  *)
(* two states that differ only in the anchor and the orientation of the    *)
(* opponent's boat.                                                        *)

\* The placements an opponent's boat is replaced by.
OtherPlacements ==
    { [position |-> b.position, orientation |-> b.orientation] :
        b \in generateRandomBoat(Edges) }

Replaced(st, player, placement) ==
    [st EXCEPT !.players[player].boat.position = placement.position,
               !.players[player].boat.orientation = placement.orientation]

ViewNonInterference ==
    \A X \in Player :
      \A placement \in OtherPlacements :
        LET other == Replaced(state, Other(X), placement)
        IN /\ getPlayerView(other, X) = getPlayerView(state, X)
           /\ visualizeBoard(other, X) = visualizeBoard(state, X)

\* A player has hit the opponent's boat, which has moved away since: the shot
\* is no cell of the opponent's boat any more.
ViewNonInterferenceWitness ==
    \E X \in Player :
      \E i \in 1..Len(Shots(state, X)) :
        /\ Shots(state, X)[i].value = "hit"
        /\ KeyPosition(Shots(state, X)[i].key) \notin Occupies(Boat(state, Other(X)))

(* C12: after a successful fire or move that does not end the game,        *)
(* currentTurn is the other player than before the call, and turnNumber is *)
(* one more than before if the new currentTurn is player1 and is unchanged *)
(* otherwise.                                                              *)
TurnAlternationStep ==
    (CallStep /\ lastResult'.success /\ ~state'.isGameOver) =>
        /\ state'.currentTurn = Other(state.currentTurn)
        /\ state'.turnNumber = IF state'.currentTurn = "player1"
                               THEN state.turnNumber + 1
                               ELSE state.turnNumber

TurnAlternation == [][TurnAlternationStep]_vars

\* A successful move of player2 has brought the turn back to player1 and
\* opened turn 2.
TurnAlternationWitness ==
    /\ lastCall.op = "move"
    /\ lastResult.success
    /\ ~state.isGameOver
    /\ state.currentTurn = "player1"
    /\ state.turnNumber = 2

(* C13: a fire that sinks the opponent's boat does not switch the turn:    *)
(* after it currentTurn is still the firing player and turnNumber is       *)
(* unchanged, winner is the firing player and winReason is set.            *)
SinkKeepsTurnStep ==
    (lastCall'.op = "fire" /\ Has(lastResult', "sunk")) =>
        /\ lastResult'.success /\ lastResult'.hit /\ lastResult'.sunk
        /\ state.currentTurn = lastCall'.player
        /\ state'.currentTurn = lastCall'.player
        /\ state'.turnNumber = state.turnNumber
        /\ state'.isGameOver
        /\ state'.winner = lastCall'.player
        /\ state'.winReason # nullReason

SinkKeepsTurn == [][SinkKeepsTurnStep]_vars

\* player1 has sunk player2's boat in turn 3 and still holds the turn.
SinkKeepsTurnWitness ==
    /\ Has(lastResult, "sunk")
    /\ state.currentTurn = "player1"
    /\ state.winner = "player1"
    /\ state.turnNumber = 3

(* C14: fire checks, in this order, that the game is not over, that the    *)
(* acting player is currentTurn, that the target is inside the grid and    *)
(* that the target is not in the acting player's shotsHistory, and reports *)
(* the first check that fails: a call after game over is rejected as 'Game *)
(* is already over' whatever its arguments, a call by the wrong player     *)
(* with an out-of-grid target as 'Not your turn'.                          *)

NewestShot(player) == Shots(state, player)[Len(Shots(state, player))]

\* The targets fire is asked about: the opponent's cells, a free cell, two
\* positions outside the grid and the positions already fired at.
FireInputs(player) ==
    Targets(state, player)
    \cup {KeyPosition(Shots(state, player)[i].key) : i \in 1..Len(Shots(state, player))}

FiredAt(player, target) ==
    \E i \in 1..Len(Shots(state, player)) :
        KeyPosition(Shots(state, player)[i].key) = target

FireCheckOrder ==
    \A player \in Player :
      \A target \in FireInputs(player) :
        LET result == fire(state, player, target).result
            rejectedAs(text) == ~result.success /\ result.message = <<text>>
        IN IF state.isGameOver THEN rejectedAs("Game is already over")
           ELSE IF player # state.currentTurn THEN rejectedAs("Not your turn")
           ELSE IF target \notin GridPositions THEN rejectedAs("Invalid target position")
           ELSE IF FiredAt(player, target)
                THEN rejectedAs("Already fired at this position")
           ELSE result.success

\* The game is on, it is player2's turn, and player1, who has fired before,
\* would fire outside the grid and be told that it is not its turn.
FireCheckOrderWitness ==
    /\ ~state.isGameOver
    /\ state.currentTurn = "player2"
    /\ Shots(state, "player1") # << >>
    /\ fire(state, "player1", Position(0 - 1, 0)).result.message = <<"Not your turn">>

(* C15: a successful fire returns hit: true exactly when the target is one *)
(* of the three cells of the opponent's boat at the time of the call; the  *)
(* value recorded for the target in the acting player's shotsHistory is    *)
(* 'hit' exactly when the result has hit: true and 'miss' otherwise; on a  *)
(* hit the index added to the opponent's hit set is the target's offset    *)
(* (0, 1 or 2) from the anchor along the boat's orientation.               *)
HitRule ==
    \A player \in Player :
      \A target \in FireInputs(player) :
        LET r == fire(state, player, target)
            opponent == Other(player)
            recorded == Shots(r.state, player)[Len(Shots(r.state, player))]
        IN r.result.success =>
             /\ r.result.hit <=> target \in Occupies(Boat(state, opponent))
             /\ KeyPosition(recorded.key) = target
             /\ recorded.key = positionKey(target)
             /\ recorded.value = (IF r.result.hit THEN "hit" ELSE "miss")
             /\ r.result.hit =>
                  \E k \in 0..(BOAT_LENGTH - 1) :
                     /\ CellAt(Boat(state, opponent), k) = target
                     /\ Boat(r.state, opponent).hits =
                           Boat(state, opponent).hits \cup {IndexKey(k)}
             /\ ~r.result.hit =>
                  Boat(r.state, opponent).hits = Boat(state, opponent).hits

\* The shot a successful fire has appended says 'hit' exactly when the result
\* does, and exactly when its position was a cell of the opponent's boat.
HitRecordStep ==
    (lastCall'.op = "fire" /\ lastResult'.success) =>
        LET p == lastCall'.player
            recorded == Shots(state', p)[Len(Shots(state', p))]
        IN /\ Len(Shots(state', p)) = Len(Shots(state, p)) + 1
           /\ lastResult'.hit <=> NewTarget(p) \in Occupies(Boat(state, Other(p)))
           /\ recorded.value = (IF lastResult'.hit THEN "hit" ELSE "miss")

HitDetermination == []HitRule /\ [][HitRecordStep]_vars

\* A fire has just hit the last cell of the opponent's boat, the first hit it
\* takes.
HitDeterminationWitness ==
    /\ lastCall.op = "fire" /\ lastResult.success /\ lastResult.hit
    /\ Boat(state, Other(lastCall.player)).hits = {IndexKey(2)}
    /\ NewestShot(lastCall.player).key =
          positionKey(CellAt(Boat(state, Other(lastCall.player)), 2))
    /\ NewestShot(lastCall.player).value = "hit"

(* C16: a move by the current player whose destination has at least one of *)
(* its three cells outside the grid returns success: false and leaves the  *)
(* boat's anchor and all other state unchanged; the turn stays with the    *)
(* mover.                                                                  *)
OutOfBoundsRejected ==
    \A direction \in Direction, spaces \in {1, 2} :
      LET p == state.currentTurn
          r == move(state, p, direction, spaces)
      IN (/\ ~state.isGameOver
          /\ ~(Destination(state, p, direction, spaces) \subseteq GridPositions))
         => /\ ~r.result.success
            /\ Boat(r.state, p).position = Boat(state, p).position
            /\ r.state.currentTurn = p
            /\ r.state = state

\* The mover, whose horizontal boat is anchored at (0,0), has been refused a
\* move that would leave the grid.
OutOfBoundsRejectedWitness ==
    /\ lastCall.op = "move"
    /\ ~lastResult.success
    /\ lastResult.message = <<"Move would go out of bounds">>
    /\ state.currentTurn = lastCall.player
    /\ Boat(state, lastCall.player).position = Position(0, 0)
    /\ Boat(state, lastCall.player).orientation = "horizontal"

(* C17: a move with an integer spaces other than 1 or 2 (0, negative, 3 or *)
(* more) is rejected with success: false and no state change; no           *)
(* successful move displaces the anchor by anything other than exactly 1   *)
(* or 2 cells along exactly one axis in the requested direction (up = row  *)
(* minus, down = row plus, left = col minus, right = col plus).            *)

\* The distances move is asked about.
Distances == (0 - 1)..MaxSpaces

DistanceRule ==
    \A player \in Player, direction \in Direction, spaces \in Distances :
      LET r == move(state, player, direction, spaces)
          before == Boat(state, player).position
          after == Boat(r.state, player).position
      IN /\ spaces \notin {1, 2} => (~r.result.success /\ r.state = state)
         /\ (r.result.success /\ after # before) =>
               /\ spaces \in {1, 2}
               /\ after = Shifted(before, direction, spaces)
               /\ after.row - before.row =
                     (IF direction = "down" THEN spaces
                      ELSE IF direction = "up" THEN 0 - spaces ELSE 0)
               /\ after.col - before.col =
                     (IF direction = "right" THEN spaces
                      ELSE IF direction = "left" THEN 0 - spaces ELSE 0)
         /\ (r.result.success /\ ~Has(r.result, "collision")) => after # before

\* An anchor changes by a successful move of its owner only, and then by 1 or
\* 2 cells along one axis.
DisplacementStep ==
    lastCall'.op # "reset" =>
      \A player \in Player :
        LET before == Boat(state, player).position
            after == Boat(state', player).position
        IN after # before =>
             /\ lastCall'.op = "move" /\ lastCall'.player = player
             /\ lastResult'.success
             /\ \E direction \in Direction, spaces \in {1, 2} :
                   after = Shifted(before, direction, spaces)

MoveDistance == []DistanceRule /\ [][DisplacementStep]_vars

\* A move has just been refused for its distance.
MoveDistanceWitness ==
    /\ lastCall.op = "move"
    /\ ~lastResult.success
    /\ lastResult.message = <<"Can only move 1 or 2 spaces">>

(* C18: a successful move without collision changes only the mover's boat  *)
(* anchor, currentTurn and possibly turnNumber: the mover's orientation    *)
(* and hit set, the opponent's boat, both shot histories, isGameOver,      *)
(* winner and winReason are unchanged; the hits recorded before stay on    *)
(* the same cell indices of the moved boat.                                *)
MoveFrameStep ==
    (lastCall'.op = "move" /\ lastResult'.success /\ ~Has(lastResult', "collision")) =>
        LET p == lastCall'.player
            q == Other(p)
        IN /\ state' = [state EXCEPT
                          !.players[p].boat.position = Boat(state', p).position,
                          !.currentTurn = state'.currentTurn,
                          !.turnNumber = state'.turnNumber]
           /\ Boat(state', p).orientation = Boat(state, p).orientation
           /\ Boat(state', p).hits = Boat(state, p).hits
           /\ Boat(state', q) = Boat(state, q)
           /\ Shots(state', p) = Shots(state, p)
           /\ Shots(state', q) = Shots(state, q)
           /\ state'.isGameOver = state.isGameOver
           /\ state'.winner = state.winner
           /\ state'.winReason = state.winReason

MoveFrame == [][MoveFrameStep]_vars

\* A boat that has taken a hit has just moved.
MoveFrameWitness ==
    /\ lastCall.op = "move" /\ lastResult.success /\ ~Has(lastResult, "collision")
    /\ Boat(state, lastCall.player).hits # {}

(* C19: a successful fire changes only the acting player's shotsHistory    *)
(* (exactly one new entry, keyed by the target), the opponent boat's hit   *)
(* set (only on a hit) and the turn or terminal fields: it changes no      *)
(* boat's anchor or orientation, nor the acting player's own hit set, nor  *)
(* the opponent's shotsHistory.                                            *)
FireFrameRule ==
    \A player \in Player :
      \A target \in FireInputs(player) :
        LET r == fire(state, player, target)
            opponent == Other(player)
        IN r.result.success =>
             /\ r.state = [state EXCEPT
                             !.players[player].shotsHistory = Shots(r.state, player),
                             !.players[opponent].boat.hits = Boat(r.state, opponent).hits,
                             !.currentTurn = r.state.currentTurn,
                             !.turnNumber = r.state.turnNumber,
                             !.isGameOver = r.state.isGameOver,
                             !.winner = r.state.winner,
                             !.winReason = r.state.winReason]
             /\ Len(Shots(r.state, player)) = Len(Shots(state, player)) + 1
             /\ SubSeq(Shots(r.state, player), 1, Len(Shots(state, player)))
                   = Shots(state, player)
             /\ Shots(r.state, player)[Len(Shots(r.state, player))].key
                   = positionKey(target)
             /\ ~r.result.hit =>
                   Boat(r.state, opponent).hits = Boat(state, opponent).hits
             /\ \A q \in Player :
                   /\ Boat(r.state, q).position = Boat(state, q).position
                   /\ Boat(r.state, q).orientation = Boat(state, q).orientation
             /\ Boat(r.state, player).hits = Boat(state, player).hits
             /\ Shots(r.state, opponent) = Shots(state, opponent)

\* What a step of a successful fire leaves as it was.
FireFrameStep ==
    (lastCall'.op = "fire" /\ lastResult'.success) =>
        LET p == lastCall'.player
            q == Other(p)
        IN /\ Len(Shots(state', p)) = Len(Shots(state, p)) + 1
           /\ SubSeq(Shots(state', p), 1, Len(Shots(state, p))) = Shots(state, p)
           /\ Shots(state', q) = Shots(state, q)
           /\ Boat(state', p) = Boat(state, p)
           /\ Boat(state', q).position = Boat(state, q).position
           /\ Boat(state', q).orientation = Boat(state, q).orientation
           /\ Boat(state, q).hits \subseteq Boat(state', q).hits
           /\ ~lastResult'.hit => Boat(state', q).hits = Boat(state, q).hits
           /\ state'.gridSize = state.gridSize

FireFrame == []FireFrameRule /\ [][FireFrameStep]_vars

\* A player whose own boat has been hit, and whose opponent has a shot
\* history, has just fired with success.
FireFrameWitness ==
    /\ lastCall.op = "fire" /\ lastResult.success
    /\ Boat(state, lastCall.player).hits # {}
    /\ Shots(state, Other(lastCall.player)) # << >>
    /\ Len(Shots(state, lastCall.player)) = 2

(* C20: in every reachable state winner is non-null exactly when           *)
(* isGameOver is true, and winReason is non-null exactly when isGameOver   *)
(* is true.                                                                *)
TerminalFields ==
    /\ state.winner # null <=> state.isGameOver
    /\ state.winReason # nullReason <=> state.isGameOver

\* A game has ended by a collision.
TerminalFieldsWitness ==
    /\ state.isGameOver
    /\ state.winner \in Player
    /\ state.winReason = <<Other(state.winner), " collided with ", state.winner, "'s boat!">>

(* C21: from any reachable state, mid-game or game over, reset yields a    *)
(* state with currentTurn = player1, turnNumber = 1, isGameOver = false,   *)
(* winner and winReason empty, both hit sets empty and both shot histories *)
(* empty: nothing of the previous game survives.                           *)
Fresh(st) ==
    /\ st.currentTurn = "player1"
    /\ st.turnNumber = 1
    /\ ~st.isGameOver
    /\ st.winner = null
    /\ st.winReason = nullReason
    /\ \A p \in Player : Boat(st, p).hits = {} /\ Shots(st, p) = << >>

ResetStep == lastCall'.op = "reset" => Fresh(state')

\* A state that reset has returned is left by a fire or a move only.
AfterReset == lastCall.op = "reset" => Fresh(state)

ResetFresh == []AfterReset /\ [][ResetStep]_vars

\* reset has just been called.
ResetFreshWitness ==
    /\ lastCall.op = "reset"
    /\ Fresh(state)

(* C22: initialization always terminates: player1's boat is generated once *)
(* and never regenerated, player2's boat is regenerated at most 100 times, *)
(* and the placement returned either has a minimum cell-to-cell Manhattan  *)
(* distance of at least 4 between the two boats or is the placement        *)
(* generated by the 100th regeneration.                                    *)

\* The least Manhattan distance between a cell of one boat and a cell of the
\* other is below d.
Nearer(boat1, boat2, d) ==
    \E c1 \in Occupies(boat1), c2 \in Occupies(boat2) :
        Abs(c1.row - c2.row) + Abs(c1.col - c2.col) < d

SpawnBounded ==
    /\ lastCall.pc # "generate" =>
          lastCall.attempts \in 0..100
    /\ lastCall.pc = "done" =>
          /\ state = newGame(lastCall.player1Boat, lastCall.player2Boat)
          /\ \/ ~Nearer(Boat(state, "player1"), Boat(state, "player2"), 4)
             \/ lastCall.attempts = 100
    /\ lastCall.pc # "done" => state = unassigned

SpawnStep ==
    lastCall.pc # "generate" =>
          /\ lastCall'.player1Boat = lastCall.player1Boat
          /\ lastCall'.attempts \in {lastCall.attempts, lastCall.attempts + 1}
          /\ lastCall'.player2Boat # lastCall.player2Boat =>
                lastCall'.attempts = lastCall.attempts + 1

SpawnTerminates == <>(lastCall.pc = "done")

InitializationBounded == []SpawnBounded /\ [][SpawnStep]_vars /\ SpawnTerminates

\* The 100th regeneration has left the boats too close, and the placement has
\* been returned.
InitializationBoundedWitness ==
    /\ lastCall.pc = "done"
    /\ lastCall.attempts = 100
    /\ Nearer(Boat(state, "player1"), Boat(state, "player2"), 4)

(* C23: the spawn-separation check rejects a pairing of boats exactly when  *)
(* some cell of one boat and some cell of the other are at Manhattan       *)
(* distance below 4; in particular every pairing with a shared cell, such  *)
(* as player1 at anchor (5,5) horizontal with player2 at anchor (5,7)     *)
(* vertical, is rejected.                                                  *)
TooCloseExact ==
    lastCall.pc # "generate" =>
        LET boat1 == lastCall.player1Boat
            boat2 == lastCall.player2Boat
        IN /\ boatsTooClose(boat1, boat2) <=> Nearer(boat1, boat2, 4)
           /\ boatsTooClose(boat2, boat1) <=> Nearer(boat1, boat2, 4)
           /\ Occupies(boat1) \cap Occupies(boat2) # {} => boatsTooClose(boat1, boat2)

\* A pairing the check rejects is replaced, as long as regenerations are
\* left; a pairing it accepts is returned.
SeparationStep ==
    lastCall.pc = "loop" =>
        LET near == Nearer(lastCall.player1Boat, lastCall.player2Boat, 4)
        IN /\ (near /\ lastCall.attempts < 100) =>
                 (lastCall'.pc = "loop" /\ lastCall'.attempts = lastCall.attempts + 1)
           /\ ~near =>
                 /\ lastCall'.pc = "done"
                 /\ Boat(state', "player1") = lastCall.player1Boat
                 /\ Boat(state', "player2") = lastCall.player2Boat

SeparationCheck == []TooCloseExact /\ [][SeparationStep]_vars

\* The check is at player1 at (5,5) horizontal and player2 at (5,7) vertical,
\* which share the cell (5,7), and says that they are too close.
SeparationCheckWitness ==
    /\ lastCall.pc = "loop"
    /\ lastCall.attempts < 100
    /\ lastCall.player1Boat.position = Position(5, 5)
    /\ lastCall.player1Boat.orientation = "horizontal"
    /\ lastCall.player2Boat.position = Position(5, 7)
    /\ lastCall.player2Boat.orientation = "vertical"
    /\ Position(5, 7) \in Occupies(lastCall.player1Boat) \cap Occupies(lastCall.player2Boat)
    /\ retry(lastCall.player1Boat, lastCall.player2Boat, lastCall.attempts)

(* C24: in every reachable state a player's shotsHistory has one entry per *)
(* distinct position, all positions are inside the grid, its size is the   *)
(* number of successful fire calls of that player since the last reset and *)
(* at most gridSize squared, and an entry's recorded outcome never changes *)
(* or disappears after it is written.                                      *)
HistoryShape ==
    \A p \in Player :
      LET shots == Shots(state, p) IN
        /\ \A i, j \in 1..Len(shots) :
              i # j => /\ shots[i].key # shots[j].key
                       /\ KeyPosition(shots[i].key) # KeyPosition(shots[j].key)
        /\ \A i \in 1..Len(shots) :
              /\ KeyPosition(shots[i].key) \in GridPositions
              /\ shots[i].value \in {"hit", "miss"}
        /\ Len(shots) <= state.gridSize * state.gridSize

\* The size of a history is 0 after a reset and grows by one with each
\* successful fire of its owner, and by nothing else; what is written stays.
HistoryStep ==
    \A p \in Player :
      LET before == Shots(state, p)
          after == Shots(state', p)
          fired == lastCall'.op = "fire" /\ lastCall'.player = p /\ lastResult'.success
      IN IF lastCall'.op = "reset" THEN after = << >>
         ELSE /\ Len(after) = Len(before) + (IF fired THEN 1 ELSE 0)
              /\ SubSeq(after, 1, Len(before)) = before

HistoryCount == []HistoryShape /\ [][HistoryStep]_vars

\* Both players have fired twice with success.
HistoryCountWitness ==
    /\ Len(Shots(state, "player1")) = 2
    /\ Len(Shots(state, "player2")) = 2
    /\ lastCall.op = "fire"

(* C25: in every reachable state turnNumber is 1 plus the number of        *)
(* successful non-terminal actions of player2 since the last reset; the    *)
(* total number of successful non-terminal actions is 2*(turnNumber-1)     *)
(* when currentTurn is player1 and 2*(turnNumber-1)+1 when it is player2.  *)

\* The call of a step is a successful action of player that does not end the
\* game.
ActedStep(player) ==
    /\ CallStep /\ lastCall'.player = player
    /\ lastResult'.success /\ ~state'.isGameOver

\* The total the claim gives for the successful non-terminal actions.
Total(st) ==
    IF st.currentTurn = "player1"
    THEN 2 * (st.turnNumber - 1) ELSE 2 * (st.turnNumber - 1) + 1

TurnCountStep ==
    IF lastCall'.op = "reset"
    THEN state'.turnNumber = 1 /\ Total(state') = 0
    ELSE /\ state'.turnNumber =
               state.turnNumber + (IF ActedStep("player2") THEN 1 ELSE 0)
         /\ Total(state') =
               Total(state) + (IF \E p \in Player : ActedStep(p) THEN 1 ELSE 0)

\* A player has fired no more often than it has acted.
TurnCountBounds ==
    /\ state.turnNumber >= 1
    /\ Len(Shots(state, "player1")) <=
          (state.turnNumber - 1) + (IF state.currentTurn = "player2" THEN 1 ELSE 0)
          + (IF state.isGameOver THEN 1 ELSE 0)
    /\ Len(Shots(state, "player2")) <=
          (state.turnNumber - 1) + (IF state.isGameOver THEN 1 ELSE 0)

TurnCount ==
    (state.turnNumber = 1 /\ Total(state) = 0)
    /\ []TurnCountBounds /\ [][TurnCountStep]_vars

\* Two rounds have been played: each player has acted twice.
TurnCountWitness ==
    /\ state.turnNumber = 3
    /\ state.currentTurn = "player1"
    /\ ~state.isGameOver
    /\ IsCall /\ lastCall.player = "player2" /\ lastResult.success

(* C26: in every reachable state no position is at the same time a cell of *)
(* player X's own boat and a key of player X's own shotsHistory.           *)
OwnCellNeverShot ==
    \A X \in Player :
      \A i \in 1..Len(Shots(state, X)) :
        KeyPosition(Shots(state, X)[i].key) \notin Occupies(Boat(state, X))

(* C26 as amended: a position can be a cell of X's own boat and a key of   *)
(* X's own shotsHistory at once (fire accepts a target on the firer's own  *)
(* boat, and a boat can move onto a cell its owner has fired at), but      *)
(* visualizeBoard(X) never shows more than one marker for a cell: each     *)
(* cell of each row carries exactly one of the four markers, and a cell    *)
(* that is both carries the marker of the shot.                            *)

\* The piece of the text of visualizeBoard that stands for the cell (r, c):
\* the header has 1 + 2 * 10 + 1 pieces, a row 2 + 1 + 19 + 1, of which the
\* fourth is the cell of column 0.
BoardCell(board, r, c) == board[22 + 23 * r + 4 + 2 * c]

\* The row r of the board has the shape 'label, blank, ten cells with a blank
\* between each two, newline'.
RowShape(board, r) ==
    LET row == SubSeq(board, 22 + 23 * r + 1, 22 + 23 * (r + 1))
    IN /\ row[1] = " " /\ row[2] = DigitChar[r + 1] /\ row[3] = " "
       /\ \A c \in 1..9 : row[3 + 2 * c] = " "
       /\ row[23] = "\n"

ShotOf(X, pos) ==
    {i \in 1..Len(Shots(state, X)) : KeyPosition(Shots(state, X)[i].key) = pos}

OneMarkerPerCell ==
    \A X \in Player :
      LET board == visualizeBoard(state, X) IN
        /\ Len(board) = 22 + 23 * 10 + 11
        /\ \A r \in 0..9 : RowShape(board, r)
        /\ \A pos \in GridPositions :
              /\ BoardCell(board, pos.row, pos.col) \in {"~", "█", "X", "○"}
              /\ (pos \in Occupies(Boat(state, X)) /\ ShotOf(X, pos) # {}) =>
                    BoardCell(board, pos.row, pos.col) \in {"X", "○"}

\* A player has fired at a cell of its own boat.
OneMarkerPerCellWitness ==
    \E X \in Player :
      \E pos \in Occupies(Boat(state, X)) :
        /\ ShotOf(X, pos) # {}
        /\ BoardCell(visualizeBoard(state, X), pos.row, pos.col) = "○"

(* C30: visualizeBoard(X) shows, for every grid cell, 'X' if the cell is in *)
(* X's shot history as a hit, the miss marker if it is there as a miss,    *)
(* otherwise the boat marker if it is a cell of X's own boat, otherwise    *)
(* the water marker '~'; a recorded shot always overrides the boat marker  *)
(* on the same cell.                                                       *)
ShotPositions(X, result) ==
    {KeyPosition(Shots(state, X)[i].key) :
        i \in {k \in 1..Len(Shots(state, X)) : Shots(state, X)[k].value = result}}

BoardMarkers ==
    \A X \in Player :
      \A board \in {visualizeBoard(state, X)},
         hits \in {ShotPositions(X, "hit")},
         misses \in {ShotPositions(X, "miss")},
         own \in {Occupies(Boat(state, X))} :
        \A r \in 0..9, c \in 0..9 :
           BoardCell(board, r, c) =
              (IF Position(r, c) \in hits THEN "X"
               ELSE IF Position(r, c) \in misses THEN "○"
               ELSE IF Position(r, c) \in own THEN "█"
               ELSE "~")

\* The board of a player shows the player's boat and a hit on a cell the
\* opponent's boat has left since.
BoardMarkersWitness ==
    \E X \in Player :
      LET board == visualizeBoard(state, X) IN
        /\ lastCall.op = "move" /\ lastCall.player = Other(X) /\ lastResult.success
        /\ \E pos \in GridPositions \ Occupies(Boat(state, Other(X))) :
              BoardCell(board, pos.row, pos.col) = "X"
        /\ \A pos \in Occupies(Boat(state, X)) :
              BoardCell(board, pos.row, pos.col) = "█"

(* C27: the query operations getGameState, getPlayerView and               *)
(* visualizeBoard never change the game state: after any number of such    *)
(* calls, for either player and in any state, every field of the engine's  *)
(* GameState equals its value before the calls.                            *)
Queries == {"getGameState", "getPlayerView", "visualizeBoard"}

QueryStep == lastCall'.op \in Queries => state' = state

QueriesReadOnly == [][QueryStep]_vars

\* getPlayerView has been asked for a player who has fired.
QueriesReadOnlyWitness ==
    /\ lastCall.op = "getPlayerView"
    /\ Holds({"view"})
    /\ lastResult.value.myShotsHistory # << >>
    /\ Shots(state, lastCall.player) # << >>

(* C28: a value returned to a caller by getGameState or reset is isolated  *)
(* from the engine: a caller's writes to the returned object never change  *)
(* the engine's state, and a later fire or move never changes an object    *)
(* that was returned earlier.                                              *)
IsolationStep ==
    /\ lastCall'.op = "write" => state' = state
    /\ (lastCall'.op \in {"fire", "move"} /\ Holds({"live", "copy"})) =>
          Seen(lastResult', state') = Seen(lastResult, state)

Isolation == [][IsolationStep]_vars

(* C29: during one 'turn' request handled without overlap with other       *)
(* requests at most one fire or move succeeds, it is performed as the      *)
(* player who was currentTurn when the request began, and every further    *)
(* fire or move the agent attempts in the same request is rejected without *)
(* state change.                                                           *)
ActionTool ==
    /\ lastCall.op = "turn" /\ lastCall'.op = "turn"
    /\ "success" \in DOMAIN lastResult'

OneActionStep ==
    ActionTool =>
      /\ lastResult'.success =>
            /\ lastCall.succeeded = 0
            /\ state.currentTurn = lastCall.began
            /\ \/ state'.currentTurn = Other(lastCall.began)
               \/ state'.isGameOver
            /\ \A p \in Player :
                  p # lastCall.began =>
                     /\ Shots(state', p) = Shots(state, p)
                     /\ Boat(state', p).position = Boat(state, p).position
      /\ lastCall.succeeded >= 1 => (~lastResult'.success /\ state' = state)

OneActionInv ==
    lastCall.op = "turn" =>
        /\ lastCall.succeeded <= 1
        /\ lastCall.currentPlayer = lastCall.began

OneActionPerTurn == []OneActionInv /\ [][OneActionStep]_vars

\* The agent has acted with its first call and has been refused twice since.
OneActionPerTurnWitness ==
    /\ lastCall.op = "turn"
    /\ lastCall.calls = 3
    /\ lastCall.succeeded = 1
    /\ "success" \in DOMAIN lastResult /\ ~lastResult.success
    /\ state.currentTurn = Other(lastCall.began)

(* C31: move checks, in this order, that the game is not over, that the    *)
(* acting player is currentTurn, that spaces is 1 or 2, that the           *)
(* destination is inside the grid and that it is clear of the opponent,    *)
(* and the first check that fails decides the result: an invalid spaces    *)
(* after game over or by the wrong player is reported as 'Game is already  *)
(* over' or 'Not your turn', and a destination with a cell outside the     *)
(* grid is rejected as out of bounds without ending the game even if       *)
(* another destination cell coincides with an opponent cell.               *)

\* The destination of the move has a cell outside the grid and a cell of the
\* opponent's boat.
OutsideAndOnto(st, player, direction, spaces) ==
    /\ ~(Destination(st, player, direction, spaces) \subseteq GridPositions)
    /\ Destination(st, player, direction, spaces)
          \cap Occupies(Boat(st, Other(player))) # {}

MoveOrderRule ==
    \A player \in Player, direction \in Direction, spaces \in {0, 1, 2} :
      \A r \in {move(state, player, direction, spaces)} :
        LET rejectedAs(text) ==
                /\ ~r.result.success /\ r.result.message = <<text>>
                /\ r.state = state
            destination == Destination(state, player, direction, spaces)
        IN IF state.isGameOver THEN rejectedAs("Game is already over")
           ELSE IF player # state.currentTurn THEN rejectedAs("Not your turn")
           ELSE IF spaces \notin {1, 2} THEN rejectedAs("Can only move 1 or 2 spaces")
           ELSE IF ~(destination \subseteq GridPositions)
                THEN rejectedAs("Move would go out of bounds") /\ ~r.state.isGameOver
           ELSE IF destination \cap Occupies(Boat(state, Other(player))) # {}
                THEN r.result.success /\ Has(r.result, "collision")
           ELSE r.result.success /\ ~Has(r.result, "collision")

\* A move that is refused is refused for the first of the reasons that
\* applies to the state it was made in.
MoveOrderStep ==
    (lastCall'.op = "move" /\ ~lastResult'.success) =>
        /\ state' = state
        /\ state.isGameOver <=> lastResult'.message = <<"Game is already over">>
        /\ (~state.isGameOver /\ lastCall'.player # state.currentTurn)
              <=> lastResult'.message = <<"Not your turn">>
        /\ lastResult'.message \in
              {<<"Can only move 1 or 2 spaces">>, <<"Move would go out of bounds">>}
              => (~state.isGameOver /\ lastCall'.player = state.currentTurn)

MoveCheckOrder == []MoveOrderRule /\ [][MoveOrderStep]_vars

\* The mover has been refused a move that would have left the grid, and has
\* such a move whose destination also covers a cell of the opponent's boat.
MoveCheckOrderWitness ==
    /\ lastCall.op = "move" /\ lastCall.player = state.currentTurn
    /\ lastResult.message = <<"Move would go out of bounds">>
    /\ ~state.isGameOver
    /\ \E direction \in Direction, spaces \in {1, 2} :
          OutsideAndOnto(state, state.currentTurn, direction, spaces)

(* C32: a collision move changes only isGameOver, winner and winReason:    *)
(* the mover's anchor keeps its pre-move value, so the cells of the two    *)
(* boats stay as they were, and currentTurn and turnNumber are unchanged;  *)
(* at a collision game-over currentTurn is the loser, at a sink game-over  *)
(* currentTurn is the winner.                                              *)
CollisionFrameStep ==
    (lastCall'.op = "move" /\ Has(lastResult', "collision")) =>
        /\ state' = [state EXCEPT !.isGameOver = TRUE,
                                  !.winner = Other(lastCall'.player),
                                  !.winReason = state'.winReason]
        /\ ~state.isGameOver
        /\ state'.winReason # state.winReason
        /\ \A p \in Player : Occupies(Boat(state', p)) = Occupies(Boat(state, p))
        /\ state'.currentTurn = lastCall'.player
        /\ state'.currentTurn # state'.winner

\* The turn in a finished game: with the loser of a collision, with the
\* winner of a sink.
TurnAtGameOver ==
    state.isGameOver =>
        \A winner \in {state.winner} :
          /\ state.winReason \in
                {<<Other(winner), " collided with ", winner, "'s boat!">>,
                 <<winner, " sunk ", Other(winner), "'s boat!">>}
          /\ state.winReason[2] = " collided with " => state.currentTurn = Other(winner)
          /\ state.winReason[2] = " sunk " => state.currentTurn = winner

CollisionFrame == []TurnAtGameOver /\ [][CollisionFrameStep]_vars

\* Player2 has moved onto player1's boat, which lay clear of its own: the
\* boats are still apart, it is still player2's turn and the game is
\* player1's.
CollisionFrameWitness ==
    /\ lastCall.op = "move" /\ lastCall.player = "player2"
    /\ Has(lastResult, "collision")
    /\ state.isGameOver /\ state.winner = "player1"
    /\ state.currentTurn = "player2" /\ state.turnNumber = 1
    /\ Occupies(Boat(state, "player1")) \cap Occupies(Boat(state, "player2")) = {}

(* C33: collision is decided by the destination cells only: a 2-space move *)
(* whose destination cells are in the grid and disjoint from the           *)
(* opponent's boat succeeds as a normal move and switches the turn even    *)
(* when the intermediate 1-space placement along the same direction would  *)
(* share a cell with the opponent's boat.                                  *)

\* One space back from where it lies, against direction, player's boat would
\* share a cell with the opponent's boat.
PassedThrough(st, player, direction) ==
    Destination(st, player, direction, 0 - 1) \cap Occupies(Boat(st, Other(player))) # {}

JumpRule ==
    \A direction \in Direction :
      \A p \in {state.currentTurn} :
        (/\ ~state.isGameOver
         /\ Destination(state, p, direction, 2) \subseteq GridPositions
         /\ Destination(state, p, direction, 2) \cap Occupies(Boat(state, Other(p))) = {})
        => \A r \in {move(state, p, direction, 2)} :
             /\ r.result.success /\ ~Has(r.result, "collision")
             /\ ~r.state.isGameOver
             /\ r.state.currentTurn = Other(p)
             /\ Boat(r.state, p).position = Shifted(Boat(state, p).position, direction, 2)

\* A move that succeeds without a collision has put the boat clear of the
\* opponent's and has passed the turn on, whatever lay on its way.
JumpStep ==
    (lastCall'.op = "move" /\ lastResult'.success /\ ~Has(lastResult', "collision")) =>
        /\ state'.currentTurn = Other(lastCall'.player)
        /\ ~state'.isGameOver
        /\ Occupies(Boat(state', "player1")) \cap Occupies(Boat(state', "player2")) = {}
        /\ Boat(state', Other(lastCall'.player)) = Boat(state, Other(lastCall'.player))

DestinationOnly == []JumpRule /\ [][JumpStep]_vars

\* The mover has moved 2 spaces over a cell of the opponent's boat: one space
\* back along the direction reported, its boat would lie on the opponent's.
DestinationOnlyWitness ==
    /\ lastCall.op = "move" /\ lastResult.success /\ ~Has(lastResult, "collision")
    /\ lastResult.message[4] = "2"
    /\ state.currentTurn = Other(lastCall.player)
    /\ ~state.isGameOver
    /\ PassedThrough(state, lastCall.player, lastResult.message[2])

(* C34: no deadlock: in every reachable state with isGameOver false the    *)
(* player named by currentTurn has at least one fire or move call that     *)
(* returns success: true, including states in which that player has        *)
(* already fired at every grid position.                                   *)

\* player has fired at every position of the grid.
FiredEverywhere(st, player) ==
    \A pos \in GridPositions : MapHas(Shots(st, player), positionKey(pos))

CanFire(st, player) ==
    \E target \in GridPositions : fire(st, player, target).result.success

CanMove(st, player) ==
    \E direction \in Direction, spaces \in {1, 2} :
        move(st, player, direction, spaces).result.success

NoDeadlock ==
    ~state.isGameOver =>
        /\ CanMove(state, state.currentTurn) \/ CanFire(state, state.currentTurn)
        /\ FiredEverywhere(state, state.currentTurn) =>
              /\ ~CanFire(state, state.currentTurn)
              /\ CanMove(state, state.currentTurn)

\* Player1 has fired at all the positions of the grid, its own boat has been
\* hit, the game is on and it is player1's turn.
NoDeadlockWitness ==
    /\ ~state.isGameOver
    /\ state.currentTurn = "player1"
    /\ Len(Shots(state, "player1")) = GRID_SIZE * GRID_SIZE
    /\ FiredEverywhere(state, "player1")
    /\ Boat(state, "player1").hits # {}

(* C35: in every reachable state the size of a boat's hit set is at most   *)
(* the number of 'hit' entries in the opponent's shotsHistory, and the two *)
(* are equal as long as the boat has not moved between hits; a fire that   *)
(* returns hit: true on a cell index already in the hit set (the boat has  *)
(* moved, so that a struck index lies on a new position) records a 'hit'   *)
(* entry without increasing the hit count.                                 *)

\* The shots of player recorded as hits.
HitEntries(st, player) ==
    SelectSeq(Shots(st, player), LAMBDA shot : shot.value = "hit")

\* Every hit the opponent has recorded lies on a cell of X's boat, as it lies
\* now, whose index is in the hit set: so it is while the boat has not moved
\* since it was first hit.
StruckInPlace(st, X) ==
    \A i \in 1..Len(HitEntries(st, Other(X))) :
      \E k \in 0..(BOAT_LENGTH - 1) :
        /\ CellAt(Boat(st, X), k) = KeyPosition(HitEntries(st, Other(X))[i].key)
        /\ IndexKey(k) \in Boat(st, X).hits

HitCountRule ==
    \A X \in Player :
      /\ Cardinality(Boat(state, X).hits) <= Len(HitEntries(state, Other(X)))
      /\ StruckInPlace(state, X) =>
            Cardinality(Boat(state, X).hits) = Len(HitEntries(state, Other(X)))

\* A fire that hits records one more 'hit'; the hit set grows by the index of
\* the target, and not at all when that index is in it.
HitCountStep ==
    (lastCall'.op = "fire" /\ lastResult'.success /\ lastResult'.hit) =>
        \A X \in {Other(lastCall'.player)} :
          /\ Len(HitEntries(state', Other(X))) = Len(HitEntries(state, Other(X))) + 1
          /\ \E k \in 0..(BOAT_LENGTH - 1) :
                /\ CellAt(Boat(state, X), k) = NewTarget(Other(X))
                /\ Boat(state', X).hits = Boat(state, X).hits \cup {IndexKey(k)}
                /\ IndexKey(k) \in Boat(state, X).hits =>
                      /\ Cardinality(Boat(state', X).hits) = Cardinality(Boat(state, X).hits)
                      /\ ~StruckInPlace(state', X)
                /\ IndexKey(k) \notin Boat(state, X).hits =>
                      Cardinality(Boat(state', X).hits) = Cardinality(Boat(state, X).hits) + 1
          /\ StruckInPlace(state, X) => StruckInPlace(state', X)

HitCount == []HitCountRule /\ [][HitCountStep]_vars

\* A fire has just hit a boat on an index that was struck before the boat
\* moved: two hits are recorded and the hit set has one element.
HitCountWitness ==
    /\ lastCall.op = "fire" /\ lastResult.success /\ lastResult.hit
    /\ Len(HitEntries(state, lastCall.player)) = 2
    /\ Cardinality(Boat(state, Other(lastCall.player)).hits) = 1
    /\ ~state.isGameOver

(* C36: for every interleaving of 'turn' requests, overlapping ones        *)
(* included, each engine call a tool makes for the agent of a request      *)
(* (fire, move, player view, visualization) is executed as the player      *)
(* whose turn it was when that request began: the agent started for one    *)
(* player never acts as, or reads the view of, the other player.           *)
ToolStep == "tool" \in DOMAIN lastResult'

ToolAsOwnPlayerStep ==
    ToolStep => lastResult'.player = lastCall.requests[lastResult'.request].began

ToolAsOwnPlayer == [][ToolAsOwnPlayerStep]_vars

(* C37: after a 'reset' request has completed, no tool call issued by the  *)
(* agent of a 'turn' request that began before the reset changes the state *)
(* of the new game, and the state that earlier 'turn' request returns is   *)
(* the state of the engine its tool calls acted on.                        *)
ResponseStep(i) == lastCall.requests[i].op = "turn" /\ lastCall'.requests[i].op = "done"

ResetIsolationStep ==
    \A i \in Request :
      /\ (ToolStep /\ lastResult'.request = i /\ lastCall.requests[i].engine.replaced)
            => state' = state
      /\ (ResponseStep(i) /\ lastCall.requests[i].calls > 0) =>
            /\ lastCall.requests[i].acted = lastCall.requests[i].engine
            /\ lastResult'.state =
                  getSanitizedState(engineState(lastCall.requests[i].acted, state))

ResetIsolation == [][ResetIsolationStep]_vars

(* C38: a background advisor task that was cancelled by a later 'move' or  *)
(* 'reset' request never writes advisorCache: for every interleaving of    *)
(* advisor completion with move and reset requests an entry is written     *)
(* only by the task recorded in pendingAdvisorTask whose abort signal has  *)
(* not been triggered, and after a reset neither cache entry holds         *)
(* analysis computed for the previous game.                                *)
CacheWrite == lastResult'.event = "advisor" /\ lastResult'.cached

AdvisorWriteStep ==
    CacheWrite =>
        /\ ~lastCall.tasks[lastResult'.task].aborted
        /\ state.pendingAdvisorTask # noTask
        /\ state.pendingAdvisorTask.task = lastResult'.task

CacheOfThisGame ==
    \A player \in {"white", "black"} :
        state.advisorCache[player] # noAdvice =>
            lastCall.tasks[state.advisorCache[player].analysis.task].engines
                = state.engines

AdvisorIsolation == []CacheOfThisGame /\ [][AdvisorWriteStep]_vars

(* C39: when an advisor task started for a player after that player's move *)
(* caches its analysis, the FEN stored with it is the position after the   *)
(* opponent has moved, a position in which that player is to move, so that *)
(* the next 'move' request for that player finds the cached FEN equal to   *)
(* the current FEN and uses the advice (usedAdvisor true); cached advice   *)
(* is used only on such a FEN match and is cleared when used.              *)
ToMove(position) == IF turn(position) = "w" THEN "white" ELSE "black"

AdviceStep ==
    /\ CacheWrite =>
          \A player \in {lastCall.tasks[lastResult'.task].player} :
              ToMove(state'.advisorCache[player].fen) = player
    /\ lastResult'.event = "begin" =>
          \A request \in {lastCall'.requests[lastResult'.request]} :
            \A cachedAdvice \in {state.advisorCache[request.currentPlayer]} :
              /\ request.currentPlayer = ToMove(state.game)
              /\ request.usedAdvisor <=>
                    (cachedAdvice # noAdvice /\ cachedAdvice.fen = fen(state.game))
              /\ request.usedAdvisor =>
                    state'.advisorCache[request.currentPlayer] = noAdvice
              /\ cachedAdvice # noAdvice => request.usedAdvisor

AdviceForNextMove == [][AdviceStep]_vars

----------------------------------------------------------------------------
\* C40: position keys round-trip and are unique. After an accepted shot at
\* any position of the grid the shooter's view shows, as its newest entry,
\* the very row and column fire was given with the outcome fire reported, and
\* the entries before it as they were; no other position of the grid has the
\* key that shot wrote. In every state the view of X has as many entries as
\* X's shotsHistory, entry by entry the position whose key is the stored key
\* and the stored outcome, entries of different keys show different
\* positions, and myBoat.hits is the size of X's boat's hit set.
KeyRoundTripStep ==
    (lastCall'.op = "fire" /\ lastResult'.success) =>
        LET player == lastCall'.player
            target == lastCall'.target
            before == getPlayerView(state, player).myShotsHistory
            after == getPlayerView(state', player).myShotsHistory
            written == Shots(state', player)[Len(Shots(state', player))].key
        IN /\ after = Append(before,
                        [position |-> target,
                         result |-> IF lastResult'.hit THEN "hit" ELSE "miss"])
           /\ written = positionKey(target)
           /\ \A pos \in GridPositions : positionKey(pos) = written => pos = target

ViewOfHistory ==
    \A player \in Player :
        \A view \in {getPlayerView(state, player)} :
            /\ Len(view.myShotsHistory) = Len(Shots(state, player))
            /\ \A i \in 1..Len(view.myShotsHistory) :
                 /\ positionKey(view.myShotsHistory[i].position)
                      = Shots(state, player)[i].key
                 /\ view.myShotsHistory[i].position \in GridPositions
                 /\ view.myShotsHistory[i].result = Shots(state, player)[i].value
            /\ \A i, j \in 1..Len(view.myShotsHistory) :
                 i # j => view.myShotsHistory[i].position
                            # view.myShotsHistory[j].position
            /\ view.myBoat.hits = Cardinality(Boat(state, player).hits)

KeyRoundTrip == []ViewOfHistory /\ [][KeyRoundTripStep]_vars

\* A shot at a position whose row and column differ has hit: the shooter's
\* view shows it, and the view of the player struck counts the hit.
KeyRoundTripWitness ==
    /\ lastCall.op = "fire" /\ lastResult.success /\ lastResult.hit
    /\ lastCall.target.row # lastCall.target.col
    /\ getPlayerView(state, lastCall.player).myShotsHistory
         = <<[position |-> lastCall.target, result |-> "hit"]>>
    /\ getPlayerView(state, Opponent(lastCall.player)).myBoat.hits = 1

====
